---- MODULE Spec2Model ----
(***************************************************************************)
(* A model of the code examples of the repository: the generator examples *)
(* of the generators document (src/unnamed/part_001, src/unnamed/part_000,*)
(* src/generators.md) and the promise / generator / async-await examples  *)
(* of src/async-await.js (documented in src/README.md).                    *)
(*                                                                         *)
(* Generator bodies are lists of instructions, one per statement of the   *)
(* source, run by an interpreter of the generator protocol (next, throw). *)
(*                                                                         *)
(* It also covers the iterator examples of src/iterables-iterators.md, the *)
(* library calls of src/string.js and src/object.js, and the anchors of    *)
(* the tables of contents of the documents.  src/async-await.js and        *)
(* src/unnamed/part_002 are also run as whole scripts, statement by        *)
(* statement.                                                              *)
(***************************************************************************)
EXTENDS Integers, Sequences, FiniteSets, TLC

VARIABLES
    objs,        \* generators document: the generator object of each snippet
    hist,        \* generators document: the results of the next() calls made on each object
    sent,        \* generators document: the values passed to those next() calls
    outs,        \* generators document: what each for-of / spread over the object received
    example,     \* async-await.js: the example whose code has been run ("" before it runs)
    errs,        \* async-await.js: the error argument of each request the example makes
    calls,       \* async-await.js: the number of requests made so far
    promises,    \* async-await.js: the promises created, by identity (1, 2, ...)
    microtasks,  \* async-await.js: the queue of promise reaction jobs
    timers,      \* async-await.js: the pending setTimeout callbacks, in firing order
    now,         \* async-await.js: the clock, in ms since the example started
    gen,         \* async-await.js: the generator object g of getRandomWithGenerator
    all,         \* async-await.js: the values and the count Promise.all still waits for
    log,         \* async-await.js: the lines written by console.log, with the time of writing
    uncaught,    \* async-await.js: the exceptions that escaped a callback
    getRandom,   \* unnamed/part_002: the function the name getRandom is bound to
    its,         \* iterables document: the iterator object of each snippet
    ires,        \* iterables document: the calls made on each iterator, with their results
    loops,       \* iterables document: what each for-of loop over the iterator logged
    pad,         \* string.js: the padStart / padEnd call evaluated last, with its result
    obj,         \* object.js: the properties of obj, in the order they were created
    seen,        \* object.js: what Object.values, Object.entries and for...in gave for obj
    doc,         \* documents: the document being rendered ("" before one is)
    anchors,     \* documents: the anchors of the headings rendered so far, in order
    followed     \* documents: where each link of the table of contents led, once followed

varsGen == <<objs, hist, sent, outs>>
varsAsync ==
    <<example, errs, calls, promises, microtasks, timers, now, gen, all, log, uncaught,
      getRandom>>
varsIter == <<its, ires, loops>>
varsLib == <<pad, obj, seen>>
varsDoc == <<doc, anchors, followed>>
vars == <<varsGen, varsAsync, varsIter, varsLib, varsDoc>>

(* What the steps of one document's examples leave alone.                  *)
varsButGen == <<varsAsync, varsIter, varsLib, varsDoc>>
varsButAsync == <<varsGen, varsIter, varsLib, varsDoc>>
varsButIter == <<varsGen, varsAsync, varsLib, varsDoc>>
varsButLib == <<varsGen, varsAsync, varsIter, varsDoc>>
varsButDoc == <<varsGen, varsAsync, varsIter, varsLib>>

----------------------------------------------------------------------------
(* JavaScript values: undefined, strings, numbers and Error objects.       *)

Undef == [t |-> "undefined", n |-> 0, s |-> "", items |-> << >>]
Str(s) == [t |-> "string", n |-> 0, s |-> s, items |-> << >>]
Num(n) == [t |-> "number", n |-> n, s |-> "", items |-> << >>]
Error(msg) == [t |-> "Error", n |-> 0, s |-> msg, items |-> << >>]
Array(items) == [t |-> "array", n |-> 0, s |-> "", items |-> items]
True == [t |-> "boolean", n |-> 1, s |-> "", items |-> << >>]
Object(name) == [t |-> "object", n |-> 0, s |-> name, items |-> << >>]

(* Whether a value counts as true in a condition: undefined, 0 and '' do   *)
(* not.                                                                    *)
Truthy(v) ==
    CASE v.t = "undefined" -> FALSE
      [] v.t = "number" -> v.n # 0
      [] v.t = "string" -> v.s # ""
      [] v.t = "boolean" -> v.n = 1
      [] OTHER -> TRUE

(* The object a call of next() returns, { value, done }, or the exception  *)
(* it propagates to its caller.                                            *)
IterResult(value, done) == [kind |-> "result", value |-> value, done |-> done]
Thrown(e) == [kind |-> "throw", value |-> e, done |-> TRUE]

(* A line written by console.log, or the mark of a commented code point    *)
(* (// A, // B) being executed.                                            *)
Line(text, value) == [text |-> text, value |-> value]

----------------------------------------------------------------------------
(* The statements of a generator body.  h is the position of the catch    *)
(* clause of the try block that encloses the statement (0: none).          *)

Ins(op, a, v, t, h) == [op |-> op, a |-> a, v |-> v, t |-> t, h |-> h]
Code(tag) == Ins("code", Str(tag), "", 0, 0)
Yield(value) == Ins("yield", value, "", 0, 0)
YieldInto(var, h) == Ins("yield", Undef, var, 0, h)
Return(value) == Ins("return", value, "", 0, 0)
Throw(e) == Ins("throw", e, "", 0, 0)
Log(text, var, h) == Ins("log", Str(text), var, 0, h)
Jump(t) == Ins("jump", Undef, "", t, 0)
Catch(var) == Ins("catch", Undef, var, 0, 0)
YieldVar(var) == Ins("yieldvar", Str(var), "", 0, 0)
YieldStar(fn, var) == Ins("yield*", Str(fn), var, 0, 0)
CallFn(fn) == Ins("call", Str(fn), "", 0, 0)
ForOfInit(fn) == Ins("for-of", Str(fn), "", 0, 0)
ForOfNext(var, exit) == Ins("for-of.next", Undef, var, exit, 0)
Set(var, value) == Ins("set", value, var, 0, 0)
Add(var, n) == Ins("add", Num(n), var, 0, 0)
UnlessLe(var, other, exit) == Ins("unless<=", Str(other), var, exit, 0)
UnlessEven(var, skip) == Ins("unlessEven", Undef, var, skip, 0)

(* function* generator() { /* A */ yield 'foo' /* B */ }                   *)
generatorBAfterA == << Code("A"), Code("B"), Yield(Str("foo")) >>
generator == << Code("A"), Yield(Str("foo")), Code("B") >>

(* function* generatorWithReturn() { yield 'foo'; yield 'bar'; return 'done' } *)
generatorWithReturnAsYield ==
    << Yield(Str("foo")), Yield(Str("bar")), Yield(Str("done")) >>
generatorWithReturn == << Yield(Str("foo")), Yield(Str("bar")), Return(Str("done")) >>

(* function* generatorWithThrow() { yield 'foo'; throw new Error('Ups!'); yield 'bar' } *)
generatorWithThrow == << Yield(Str("foo")), Throw(Error("Ups!")), Yield(Str("bar")) >>

(* function* onFulfill() { try { var result = yield; console.log(...) }    *)
(*                         catch(error) { console.log(...) } }             *)
onFulfillWithoutTry ==
    << YieldInto("result", 0),
       Log("Your random number is", "result", 0),
       Jump(6),
       Catch("error"),
       Log("Ups! Something went wrong! Details:", "error", 0) >>
onFulfill ==
    << YieldInto("result", 4),
       Log("Your random number is", "result", 4),
       Jump(6),
       Catch("error"),
       Log("Ups! Something went wrong! Details:", "error", 0) >>

(* function* foo() { yield 'foo' }                                         *)
foo == << Yield(Str("foo")) >>

(* function* bar() { yield 'bar'; foo(); yield 'bar again' }               *)
bar_callIterated == << Yield(Str("bar")), YieldStar("foo", ""), Yield(Str("bar again")) >>
bar_call == << Yield(Str("bar")), CallFn("foo"), Yield(Str("bar again")) >>

(* function* bar() { yield 'bar'; yield* foo(); yield 'bar again' }        *)
bar_yieldStarLeftOut == << Yield(Str("bar")), CallFn("foo"), Yield(Str("bar again")) >>
bar_yieldStar == << Yield(Str("bar")), YieldStar("foo", ""), Yield(Str("bar again")) >>

(* function* bar() { yield 'bar'; for (let e of foo()) { yield e };        *)
(*                   yield 'bar again' }                                   *)
bar_forOfWithoutYield ==
    << Yield(Str("bar")),
       ForOfInit("foo"),
       ForOfNext("e", 5),
       Jump(3),
       Yield(Str("bar again")) >>
bar_forOf ==
    << Yield(Str("bar")),
       ForOfInit("foo"),
       ForOfNext("e", 6),
       YieldVar("e"),
       Jump(3),
       Yield(Str("bar again")) >>

(* function* foo() { yield 'foo'; return 'foo done' }                      *)
foo_return == << Yield(Str("foo")), Return(Str("foo done")) >>

(* function* bar() { yield 'bar'; const result = yield* foo(); yield result } *)
bar_result == << Yield(Str("bar")), YieldStar("foo_return", "result"), YieldVar("result") >>

(* function* generatorDataConsumer() { console.log('Ready to consume!');   *)
(*     while (true) { const input = yield; console.log(`Got: ${input}`) } } *)
generatorDataConsumerOnce ==
    << Log("Ready to consume!", "", 0),
       YieldInto("input", 0),
       Log("Got:", "input", 0) >>
generatorDataConsumer ==
    << Log("Ready to consume!", "", 0),
       YieldInto("input", 0),
       Log("Got:", "input", 0),
       Jump(2) >>

(* function* evenNumbersUntil(max) { for (let value = 0; value <= max;     *)
(*     value += 2) { if (value % 2 === 0) yield value; } }                 *)
evenNumbersUntilFromTwo ==
    << Set("value", Num(2)),
       UnlessLe("value", "max", 7),
       UnlessEven("value", 5),
       YieldVar("value"),
       Add("value", 2),
       Jump(2) >>
(* for (let value = 0; value <= max; value += 1): every other iteration    *)
(* is skipped by the if.                                                   *)
evenNumbersUntilByOne ==
    << Set("value", Num(0)),
       UnlessLe("value", "max", 7),
       UnlessEven("value", 5),
       YieldVar("value"),
       Add("value", 1),
       Jump(2) >>

evenNumbersUntil ==
    << Set("value", Num(0)),
       UnlessLe("value", "max", 7),
       UnlessEven("value", 5),
       YieldVar("value"),
       Add("value", 2),
       Jump(2) >>

Body(fn) ==
    CASE fn = "generator" -> generator
      [] fn = "generatorWithReturn" -> generatorWithReturn
      [] fn = "generatorWithThrow" -> generatorWithThrow
      [] fn = "onFulfill" -> onFulfill
      [] fn = "foo" -> foo
      [] fn = "bar_call" -> bar_call
      [] fn = "bar_yieldStar" -> bar_yieldStar
      [] fn = "bar_forOf" -> bar_forOf
      [] fn = "foo_return" -> foo_return
      [] fn = "bar_result" -> bar_result
      [] fn = "generatorDataConsumer" -> generatorDataConsumer
      [] fn = "evenNumbersUntil" -> evenNumbersUntil

LocalNames == {"result", "error", "e", "input", "value", "max"}

(* Calling a generator function creates a generator object and runs none  *)
(* of the body.                                                            *)
(* sub holds the generator object the body has created (by foo(), by     *)
(* yield* foo() or by for (... of foo())), if any.                         *)
NoGenerator == [fn |-> "", pc |-> 0, st |-> "absent",
                loc |-> [x \in LocalNames |-> Undef], out |-> << >>, sub |-> << >>]
NewGenerator(fn) == [fn |-> fn, pc |-> 0, st |-> "suspendedStart",
                     loc |-> [x \in LocalNames |-> Undef], out |-> << >>, sub |-> << >>]

Bind(g, var, value) ==
    IF var \in LocalNames THEN [g EXCEPT !.loc[var] = value] ELSE g

(* A generator object that starts over once its body has ended.            *)
FinishStartsOver(g, pc) == [g EXCEPT !.st = "suspendedStart", !.pc = 0]

Finish(g, pc) == [g EXCEPT !.st = "completed", !.pc = pc]

Local(g, var) == IF var \in LocalNames THEN g.loc[var] ELSE Undef

RECURSIVE Run(_, _), Raise(_, _, _), Delegate(_, _, _), Iterate(_, _, _)
RECURSIVE GenNext(_, _), GenThrow(_, _)

(* Runs the body from statement pc until it yields, returns, throws or    *)
(* falls off its end.                                                      *)
Run(g, pc) ==
    IF pc > Len(Body(g.fn))
    THEN [g |-> Finish(g, pc), res |-> IterResult(Undef, TRUE)]
    ELSE LET i == Body(g.fn)[pc] IN
         CASE i.op = "code" ->
                Run([g EXCEPT !.out = Append(@, Line(i.a.s, Undef))], pc + 1)
           [] i.op = "log" ->
                Run([g EXCEPT !.out = Append(@, Line(i.a.s, Local(g, i.v)))], pc + 1)
           [] i.op = "yield" ->
                [g |-> [g EXCEPT !.st = "suspendedYield", !.pc = pc],
                 res |-> IterResult(i.a, FALSE)]
           [] i.op = "yieldvar" ->
                [g |-> [g EXCEPT !.st = "suspendedYield", !.pc = pc],
                 res |-> IterResult(Local(g, i.a.s), FALSE)]
           [] i.op = "return" ->
                [g |-> Finish(g, pc), res |-> IterResult(i.a, TRUE)]
           [] i.op = "throw" -> Raise(g, pc, i.a)
           [] i.op = "jump" -> Run(g, i.t)
           [] i.op = "catch" -> Run(g, pc + 1)
           [] i.op = "call" ->
                \* foo(): the generator object is created and dropped
                Run([g EXCEPT !.sub = << NewGenerator(i.a.s) >>], pc + 1)
           [] i.op = "yield*" ->
                \* yield* foo(): the first next() of the new generator
                Delegate(g, pc, GenNext(NewGenerator(i.a.s), Undef))
           [] i.op = "for-of" ->
                \* for (let e of foo()): the iterator of the loop
                Run([g EXCEPT !.sub = << NewGenerator(i.a.s) >>], pc + 1)
           [] i.op = "for-of.next" ->
                \* the loop takes the next element, or ends when there is none
                Iterate(g, pc, GenNext(g.sub[1], Undef))
           [] i.op = "set" -> Run(Bind(g, i.v, i.a), pc + 1)
           [] i.op = "add" -> Run(Bind(g, i.v, Num(Local(g, i.v).n + i.a.n)), pc + 1)
           [] i.op = "unless<=" ->
                IF Local(g, i.v).n <= Local(g, i.a.s).n THEN Run(g, pc + 1) ELSE Run(g, i.t)
           [] i.op = "unlessEven" ->
                IF Local(g, i.v).n % 2 = 0 THEN Run(g, pc + 1) ELSE Run(g, i.t)

(* An exception raised at statement pc: control moves to the enclosing    *)
(* catch clause, or the generator finishes and the exception propagates.  *)
RaiseAndContinue(g, pc, e) ==
    [g |-> [g EXCEPT !.st = "suspendedYield", !.pc = pc], res |-> Thrown(e)]
Raise(g, pc, e) ==
    LET h == Body(g.fn)[pc].h IN
    IF h # 0
    THEN Run(Bind(g, Body(g.fn)[h].v, e), h + 1)
    ELSE [g |-> Finish(g, pc), res |-> Thrown(e)]

(* The head of a for-of loop at statement pc, after next() was called on   *)
(* the loop's iterator with outcome r: the loop ends when r is done, and   *)
(* otherwise runs its body with the loop variable bound to r's value.      *)
Iterate(g, pc, r) ==
    LET g1 == [g EXCEPT !.sub = << r.g >>] IN
    IF r.res.kind = "throw" THEN Raise(g1, pc, r.res.value)
    ELSE IF r.res.done THEN Run(g1, Body(g.fn)[pc].t)
    ELSE Run(Bind(g1, Body(g.fn)[pc].v, r.res.value), pc + 1)

(* yield* at statement pc, after the delegate generator was resumed with   *)
(* outcome r: what the delegate yields is yielded as it is; once the       *)
(* delegate is done, yield* evaluates to the value it returned.            *)
DelegateDropsResult(g, pc, r) ==
    LET g1 == [g EXCEPT !.sub = << r.g >>] IN
    IF r.res.kind = "throw" THEN Raise(g1, pc, r.res.value)
    ELSE IF r.res.done THEN Run(g1, pc + 1)
    ELSE [g |-> [g1 EXCEPT !.st = "suspendedYield", !.pc = pc], res |-> r.res]
Delegate(g, pc, r) ==
    LET g1 == [g EXCEPT !.sub = << r.g >>] IN
    IF r.res.kind = "throw" THEN Raise(g1, pc, r.res.value)
    ELSE IF r.res.done THEN Run(Bind(g1, Body(g.fn)[pc].v, r.res.value), pc + 1)
    ELSE [g |-> [g1 EXCEPT !.st = "suspendedYield", !.pc = pc], res |-> r.res]

(* g.next(v)                                                               *)
GenNextKeepsFirstValue(g, v) ==
    CASE g.st = "suspendedStart" ->
            LET r == Run(g, 1) IN
            IF r.g.st = "suspendedYield"
            THEN [r EXCEPT !.g = Bind(r.g, Body(r.g.fn)[r.g.pc].v, v)] ELSE r
      [] g.st = "suspendedYield" ->
            IF Body(g.fn)[g.pc].op = "yield*"
            THEN Delegate(g, g.pc, GenNext(g.sub[1], v))
            ELSE Run(g, g.pc + 1)
      [] g.st = "completed" -> [g |-> g, res |-> IterResult(Undef, TRUE)]
GenNext(g, v) ==
    CASE g.st = "suspendedStart" -> Run(g, 1)
      [] g.st = "suspendedYield" ->
            IF Body(g.fn)[g.pc].op = "yield*"
            THEN Delegate(g, g.pc, GenNext(g.sub[1], v))
            ELSE Run(Bind(g, Body(g.fn)[g.pc].v, v), g.pc + 1)
      [] g.st = "completed" -> [g |-> g, res |-> IterResult(Undef, TRUE)]

(* g.throw(e)                                                              *)
GenThrow(g, e) ==
    CASE g.st = "suspendedStart" -> [g |-> Finish(g, g.pc), res |-> Thrown(e)]
      [] g.st = "suspendedYield" ->
            IF Body(g.fn)[g.pc].op = "yield*"
            THEN Delegate(g, g.pc, GenThrow(g.sub[1], e))
            ELSE Raise(g, g.pc, e)
      [] g.st = "completed" -> [g |-> g, res |-> Thrown(e)]

(* A data consumer, for (let e of g) or [...g]: calls next() until a       *)
(* result is done or an exception ends it.  results collects what the      *)
(* calls returned.                                                         *)
RECURSIVE Consume(_, _)
Collect(r, results) ==
    IF r.res.kind = "throw" \/ r.res.done
    THEN [g |-> r.g, results |-> Append(results, r.res)]
    ELSE Consume(r.g, Append(results, r.res))
Consume(g, results) == Collect(GenNext(g, Undef), results)

(* What the consumer takes from those results: the value of each result    *)
(* that is not done.  The value of the done result is dropped.             *)
RECURSIVE Received(_)
ReceivedWithReturnValue(results) ==
    IF results = << >> THEN << >>
    ELSE LET r == results[1] IN
         IF r.kind = "result" /\ (~r.done \/ r.value # Undef)
         THEN << r.value >> \o Received(Tail(results))
         ELSE Received(Tail(results))
Received(results) ==
    IF results = << >> THEN << >>
    ELSE LET r == results[1] IN
         IF r.kind = "result" /\ ~r.done
         THEN << r.value >> \o Received(Tail(results))
         ELSE Received(Tail(results))

----------------------------------------------------------------------------
(* src/async-await.js: promises, the microtask queue and timers.           *)

TimerDelay == 200
RandDen == 3

(* Math.random() is k / RandDen for some k in 0 .. RandDen - 1, a number   *)
(* in [0, 1).                                                              *)
MathRandom == 0 .. (RandDen - 1)

(* Math.floor(Math.random() * 100)                                         *)
RandomNumber(k) == (k * 100) \div RandDen

(* A callback: its code (k), the promise it settles (p), the variables it  *)
(* closes over (v, q) and, for a timer callback, the error argument (e).    *)
Cb(k, p, v, q, e) == [k |-> k, p |-> p, v |-> v, q |-> q, e |-> e]
NoCb == Cb("none", 0, Undef, 0, Undef)

(* A promise reaction (a then / catch / await registration) and the job    *)
(* queued for it once the promise settles.                                 *)
Reaction(onFulfilled, onRejected, derived) ==
    [onFulfilled |-> onFulfilled, onRejected |-> onRejected, derived |-> derived]
Job(state, reaction, arg) == [state |-> state, reaction |-> reaction, arg |-> arg]

PendingPromise == [state |-> "pending", value |-> Undef, reactions |-> << >>, at |-> 0]

(* The state of the example's run, as one record.                          *)
World ==
    [example |-> example, errs |-> errs, calls |-> calls, promises |-> promises,
     microtasks |-> microtasks, timers |-> timers, now |-> now, gen |-> gen,
     all |-> all, log |-> log, uncaught |-> uncaught, getRandom |-> getRandom]

Commit(w) ==
    /\ example' = w.example
    /\ errs' = w.errs
    /\ calls' = w.calls
    /\ promises' = w.promises
    /\ microtasks' = w.microtasks
    /\ timers' = w.timers
    /\ now' = w.now
    /\ gen' = w.gen
    /\ all' = w.all
    /\ log' = w.log
    /\ uncaught' = w.uncaught
    /\ getRandom' = w.getRandom

(* The identity of the next promise created.                               *)
NextId(w) == Len(w.promises) + 1

(* new Promise(...)                                                        *)
NewPromise(w) == [w EXCEPT !.promises = Append(@, PendingPromise)]

(* A promise settles once: resolve and reject do nothing on a promise      *)
(* that is no longer pending.  Settling queues one job per reaction.       *)
Settle(w, p, state, value) ==
    IF w.promises[p].state # "pending" THEN w
    ELSE [w EXCEPT
            !.promises[p] = [state |-> state, value |-> value,
                             reactions |-> << >>, at |-> w.now],
            !.microtasks = @ \o [i \in 1 .. Len(w.promises[p].reactions) |->
                                    Job(state, w.promises[p].reactions[i], value)]]

resolve(w, p, value) == Settle(w, p, "fulfilled", value)
reject(w, p, value) == Settle(w, p, "rejected", value)

(* Registers a reaction on promise p: kept while p is pending, queued as   *)
(* a job at once when p is already settled.                                *)
PerformThen(w, p, r) ==
    IF w.promises[p].state = "pending"
    THEN [w EXCEPT !.promises[p].reactions = Append(@, r)]
    ELSE [w EXCEPT !.microtasks =
            Append(@, Job(w.promises[p].state, r, w.promises[p].value))]

(* p.then(onFulfilled, onRejected): returns the promise NextId(w).         *)
PromiseThen(w, p, onFulfilled, onRejected) ==
    PerformThen(NewPromise(w), p, Reaction(onFulfilled, onRejected, NextId(w)))

(* p.catch(onRejected)                                                     *)
PromiseCatch(w, p, onRejected) == PromiseThen(w, p, NoCb, onRejected)

(* await p inside an async function: the function is suspended and its     *)
(* continuation runs as a job once p is settled.                           *)
Await(w, p, onFulfilled, onRejected) ==
    PerformThen(w, p, Reaction(onFulfilled, onRejected, 0))

(* var thenable = { then(resolve) { resolve(45); } }                      *)
thenable == Object("thenable")

IsThenable(v) == v = thenable

(* await v for an operand that is no promise, as Promise.resolve(v) does   *)
(* it: a new promise, fulfilled with v at once; for a thenable, a job is   *)
(* queued that calls v.then with the resolving functions of the promise.   *)
AwaitValueLost(w, v, onFulfilled, onRejected) ==
    LET p == NextId(w)
        w1 == NewPromise(w)
        w2 == IF IsThenable(v)
              THEN [w1 EXCEPT !.microtasks =
                       Append(@, Job("fulfilled",
                                     Reaction(Cb("thenable.then", p, Undef, 0, Undef),
                                              NoCb, 0), Undef))]
              ELSE resolve(w1, p, Undef)
    IN  Await(w2, p, onFulfilled, onRejected)
(* An await whose continuation, console.log(random), runs in the same turn. *)
AwaitValueAtOnce(w, v, onFulfilled, onRejected) ==
    [w EXCEPT !.log = Append(@, [text |-> "", values |-> << v >>, at |-> w.now])]

AwaitValue(w, v, onFulfilled, onRejected) ==
    LET p == NextId(w)
        w1 == NewPromise(w)
        w2 == IF IsThenable(v)
              THEN [w1 EXCEPT !.microtasks =
                       Append(@, Job("fulfilled",
                                     Reaction(Cb("thenable.then", p, Undef, 0, Undef),
                                              NoCb, 0), Undef))]
              ELSE resolve(w1, p, v)
    IN  Await(w2, p, onFulfilled, onRejected)

(* setTimeout(cb, 200)                                                     *)
SetTimeout(w, cb) ==
    [w EXCEPT !.timers = Append(@, [due |-> w.now + TimerDelay, cb |-> cb])]

LogLine(text, values, at) == [text |-> text, values |-> values, at |-> at]

ConsoleLog(w, text, values) ==
    [w EXCEPT !.log = Append(@, LogLine(text, values, w.now))]

(* The error argument of the next request.                                 *)
NextError(w) == w.errs[w.calls + 1]

(* var getRandomWithPromise = (error) => new Promise(... setTimeout ...):  *)
(* returns the promise NextId(w).                                          *)
getRandomWithPromise(w, error) ==
    SetTimeout([NewPromise(w) EXCEPT !.calls = @ + 1],
               Cb("getRandomWithPromise.timeout", NextId(w), Undef, 0, error))

(* The callback getRandomWithPromise gives to setTimeout.                  *)
PromiseTimeoutInverted(w, cb, k) ==
    IF ~Truthy(cb.e)
    THEN reject(w, cb.p, Str("some error"))
    ELSE resolve(w, cb.p, Num(RandomNumber(k)))
PromiseTimeout(w, cb, k) ==
    IF Truthy(cb.e)
    THEN reject(w, cb.p, Str("some error"))
    ELSE resolve(w, cb.p, Num(RandomNumber(k)))

(* The lines a generator wrote during one resumption are console output.   *)
FlushGenerator(w, before, r) ==
    LET new == SubSeq(r.g.out, Len(before.out) + 1, Len(r.g.out)) IN
    [w EXCEPT !.gen = r.g,
              !.log = @ \o [i \in 1 .. Len(new) |->
                              LogLine(new[i].text, << new[i].value >>, w.now)],
              !.uncaught = IF r.res.kind = "throw" THEN Append(@, r.res.value) ELSE @]

(* var getRandomWithGenerator = (generator, error) => { var g = generator(); *)
(*     setTimeout(...) }, without the g.next() that runs the generator to  *)
(* its yield.                                                              *)
getRandomWithGeneratorNotStarted(w, generatorFn, error) ==
    SetTimeout([w EXCEPT !.gen = NewGenerator(generatorFn), !.calls = @ + 1],
               Cb("getRandomWithGenerator.timeout", 0, Undef, 0, error))

(* var getRandomWithGenerator = (generator, error) => { var g = generator(); *)
(*     g.next(); setTimeout(...) }                                         *)
getRandomWithGenerator(w, generatorFn, error) ==
    LET g == NewGenerator(generatorFn)
        r == GenNext(g, Undef)
    IN  SetTimeout([FlushGenerator(w, g, r) EXCEPT !.calls = @ + 1],
                   Cb("getRandomWithGenerator.timeout", 0, Undef, 0, error))

(* The callback getRandomWithGenerator gives to setTimeout.                *)
GeneratorTimeout(w, cb, k) ==
    IF Truthy(cb.e)
    THEN FlushGenerator(w, w.gen, GenThrow(w.gen, Str("some error")))
    ELSE FlushGenerator(w, w.gen, GenNext(w.gen, Num(RandomNumber(k))))

(* Promise.all([p1, p2]): returns the promise NextId(w).  It is fulfilled *)
(* with the array of values once every element is fulfilled, and rejected  *)
(* as soon as one element is rejected.                                     *)
PromiseAll(w, p1, p2) ==
    LET pa == NextId(w)
        w0 == [NewPromise(w) EXCEPT !.all = [values |-> << Undef, Undef >>, remaining |-> 2]]
        w1 == PromiseThen(w0, p1, Cb("Promise.all.resolveElement", pa, Undef, 1, Undef),
                                  Cb("Promise.all.reject", pa, Undef, 0, Undef))
    IN  PromiseThen(w1, p2, Cb("Promise.all.resolveElement", pa, Undef, 2, Undef),
                            Cb("Promise.all.reject", pa, Undef, 0, Undef))

AllResolveElement(w, cb, arg) ==
    LET values == [w.all.values EXCEPT ![cb.q] = arg]
        remaining == w.all.remaining - 1
        w1 == [w EXCEPT !.all = [values |-> values, remaining |-> remaining]]
    IN  IF remaining = 0 THEN resolve(w1, cb.p, Array(values)) ELSE w1

AllRejectWhenAllSettled(w, cb, arg) ==
    LET remaining == w.all.remaining - 1
        w1 == [w EXCEPT !.all.remaining = remaining]
    IN  IF remaining = 0 THEN reject(w1, cb.p, arg) ELSE w1
AllReject(w, cb, arg) == reject(w, cb.p, arg)

(* What a callback does when called with arg: the state it leaves, and     *)
(* whether it returns or throws which value.                               *)
Returns(w, value) == [w |-> w, kind |-> "return", value |-> value]

Call(w, cb, arg) ==
    CASE cb.k = "logResult" ->
            \* (result) => { console.log(`Your random number is ${result}!`) }
            Returns(ConsoleLog(w, "Your random number is", << arg >>), Undef)
      [] cb.k = "logError" ->
            \* (error) => { console.log(`Ups! Something went wrong! Details: ${error}`) }
            Returns(ConsoleLog(w, "Ups! Something went wrong! Details:", << arg >>), Undef)
      [] cb.k = "getRandomWithAsync.return" ->
            \* return await getRandomWithPromise(): await evaluates to arg
            Returns(resolve(w, cb.p, arg), Undef)
      [] cb.k = "getRandomWithAsync.catch" ->
            \* catch(error) { return error }: await threw arg
            Returns(resolve(w, cb.p, arg), Undef)
      [] cb.k = "async.throw" ->
            \* await threw arg outside any try block: the async function's
            \* promise is rejected with it
            Returns(reject(w, cb.p, arg), Undef)
      [] cb.k = "Sequentially.a" ->
            \* var a = <arg>; var b = await getRandomWithPromise();
            Returns(Await(getRandomWithPromise(w, NextError(w)), NextId(w),
                          Cb("Sequentially.b", cb.p, arg, 0, Undef),
                          Cb("async.throw", cb.p, Undef, 0, Undef)), Undef)
      [] cb.k = "Sequentially.b" ->
            \* var b = <arg>; console.log(`Your random numbers are ${a} and ${b}!`)
            Returns(resolve(ConsoleLog(w, "Your random numbers are", << cb.v, arg >>),
                            cb.p, Undef), Undef)
      [] cb.k = "Concurrently.a" ->
            \* var a = <arg>; var b = await bPromise;
            Returns(Await(w, cb.q,
                          Cb("Concurrently.b", cb.p, arg, 0, Undef),
                          Cb("async.throw", cb.p, Undef, 0, Undef)), Undef)
      [] cb.k = "Concurrently.b" ->
            \* var b = <arg>; console.log(`Your random numbers are ${a} and ${b}!`)
            Returns(resolve(ConsoleLog(w, "Your random numbers are", << cb.v, arg >>),
                            cb.p, Undef), Undef)
      [] cb.k = "thenable.then" ->
            \* then(resolve) { resolve(45); }
            Returns(resolve(w, cb.p, Num(45)), Undef)
      [] cb.k = "await.log" ->
            \* console.log(`Your random number is ${<arg>}!`), ending the async function
            Returns(resolve(ConsoleLog(w, "Your random number is", << arg >>),
                            cb.p, Undef), Undef)
      [] cb.k = "logValue" ->
            \* function (value) { console.log(value) }
            Returns(ConsoleLog(w, "", << arg >>), Undef)
      [] cb.k = "random.log" ->
            \* var random = <arg>; console.log(random)
            Returns(resolve(ConsoleLog(w, "", << arg >>), cb.p, Undef), Undef)
      [] cb.k = "Promise.all.resolveElement" -> Returns(AllResolveElement(w, cb, arg), Undef)
      [] cb.k = "Promise.all.reject" -> Returns(AllReject(w, cb, arg), Undef)
      [] cb.k = "PromiseAll.log" ->
            \* var [a,b] = <arg>; console.log(`Your random numbers are ${a} and ${b}!`)
            Returns(resolve(ConsoleLog(w, "Your random numbers are", arg.items),
                            cb.p, Undef), Undef)

(* A promise reaction job: calls the handler registered for the way the    *)
(* promise settled and settles the derived promise with its outcome; with  *)
(* no such handler the derived promise settles as the promise did.         *)
RunJob(w, job) ==
    LET r == job.reaction
        handler == IF job.state = "fulfilled" THEN r.onFulfilled ELSE r.onRejected
    IN  IF handler.k = "none"
        THEN IF r.derived # 0 THEN Settle(w, r.derived, job.state, job.arg) ELSE w
        ELSE LET out == Call(w, handler, job.arg) IN
             IF r.derived = 0 THEN out.w
             ELSE IF out.kind = "return"
                  THEN resolve(out.w, r.derived, out.value)
                  ELSE reject(out.w, r.derived, out.value)

(* A timer callback, with the number k / RandDen Math.random() gives it.   *)
TimerCallback(w, cb, k) ==
    CASE cb.k = "getRandomWithPromise.timeout" -> PromiseTimeout(w, cb, k)
      [] cb.k = "getRandomWithGenerator.timeout" -> GeneratorTimeout(w, cb, k)

(* const getRandomWithAsync = async () => { try { return await             *)
(*     getRandomWithPromise() } catch(error) { return error } }:           *)
(* returns the promise NextId(w).                                          *)
getRandomWithAsyncNoTry(w) ==
    LET pr == NextId(w)
        w1 == NewPromise(w)
    IN  Await(getRandomWithPromise(w1, NextError(w1)), NextId(w1),
              Cb("getRandomWithAsync.return", pr, Undef, 0, Undef),
              Cb("async.throw", pr, Undef, 0, Undef))
getRandomWithAsync(w) ==
    LET pr == NextId(w)
        w1 == NewPromise(w)
    IN  Await(getRandomWithPromise(w1, NextError(w1)), NextId(w1),
              Cb("getRandomWithAsync.return", pr, Undef, 0, Undef),
              Cb("getRandomWithAsync.catch", pr, Undef, 0, Undef))

(* The number of requests (getRandomWithPromise / getRandomWithGenerator   *)
(* calls) each example makes.                                              *)
Requests(x) ==
    CASE x \in {"Promises", "Generators", "async / await"} -> {1}
      [] x \in {"Sequentially", "Concurrently", "Concurrently (with Promise.all)"} -> {1, 2}
      [] x \in {"await 3", "await thenable"} -> {}

(* getRandomWithPromise().then(...).catch(...)                             *)
PromisesSwapped(w) ==
    LET w1 == getRandomWithPromise(w, NextError(w))
        w2 == PromiseThen(w1, NextId(w), Cb("logError", 0, Undef, 0, Undef), NoCb)
    IN  PromiseCatch(w2, NextId(w1), Cb("logResult", 0, Undef, 0, Undef))
PromisesExample(w) ==
    LET w1 == getRandomWithPromise(w, NextError(w))
        w2 == PromiseThen(w1, NextId(w), Cb("logResult", 0, Undef, 0, Undef), NoCb)
    IN  PromiseCatch(w2, NextId(w1), Cb("logError", 0, Undef, 0, Undef))

(* getRandomWithGenerator(function* onFulfill() { ... })                   *)
GeneratorsExample(w) == getRandomWithGenerator(w, "onFulfill", NextError(w))

(* getRandomWithAsync().then(...).catch(...)                               *)
AsyncAwaitExample(w) ==
    LET w1 == getRandomWithAsync(w)
        w2 == PromiseThen(w1, NextId(w), Cb("logResult", 0, Undef, 0, Undef), NoCb)
    IN  PromiseCatch(w2, NextId(w1), Cb("logError", 0, Undef, 0, Undef))

(* (async function () { console.log(`Your random number is ${await         *)
(*     getRandomWithAsync()}!`) })()                                       *)
AwaitExample(w) ==
    LET pr == NextId(w)
        w1 == NewPromise(w)
    IN  Await(getRandomWithAsync(w1), NextId(w1),
              Cb("await.log", pr, Undef, 0, Undef),
              Cb("async.throw", pr, Undef, 0, Undef))

(* class Random { async getRandom () { return await getRandomWithPromise() } }: *)
(* returns the promise NextId(w).                                          *)
Random_getRandom(w) ==
    LET pr == NextId(w)
        w1 == NewPromise(w)
    IN  Await(getRandomWithPromise(w1, NextError(w1)), NextId(w1),
              Cb("getRandomWithAsync.return", pr, Undef, 0, Undef),
              Cb("async.throw", pr, Undef, 0, Undef))

(* (async function () { var random = new Random();                         *)
(*     console.log(`Your random number is ${await random.getRandom()}!`) })() *)
ClassesExample(w) ==
    LET pr == NextId(w)
        w1 == NewPromise(w)
    IN  Await(Random_getRandom(w1), NextId(w1),
              Cb("await.log", pr, Undef, 0, Undef),
              Cb("async.throw", pr, Undef, 0, Undef))

(* (async function () { var a = await getRandomWithPromise(); ... })()     *)
SequentiallyBothAtOnce(w) ==
    LET pr == NextId(w)
        w1 == NewPromise(w)
        w2 == getRandomWithPromise(w1, NextError(w1))
        w3 == getRandomWithPromise(w2, NextError(w2))
    IN  Await(w3, NextId(w1),
              Cb("Concurrently.a", pr, Undef, NextId(w2), Undef),
              Cb("async.throw", pr, Undef, 0, Undef))
SequentiallyExample(w) ==
    LET pr == NextId(w)
        w1 == NewPromise(w)
    IN  Await(getRandomWithPromise(w1, NextError(w1)), NextId(w1),
              Cb("Sequentially.a", pr, Undef, 0, Undef),
              Cb("async.throw", pr, Undef, 0, Undef))

(* (async function () { var aPromise = getRandomWithPromise();             *)
(*     var bPromise = getRandomWithPromise(); var a = await aPromise; ... })() *)
ConcurrentlyOneAfterTheOther(w) ==
    LET pr == NextId(w)
        w1 == NewPromise(w)
    IN  Await(getRandomWithPromise(w1, NextError(w1)), NextId(w1),
              Cb("Sequentially.a", pr, Undef, 0, Undef),
              Cb("async.throw", pr, Undef, 0, Undef))
ConcurrentlyExample(w) ==
    LET pr == NextId(w)
        w1 == NewPromise(w)
        w2 == getRandomWithPromise(w1, NextError(w1))
        w3 == getRandomWithPromise(w2, NextError(w2))
    IN  Await(w3, NextId(w1),
              Cb("Concurrently.a", pr, Undef, NextId(w2), Undef),
              Cb("async.throw", pr, Undef, 0, Undef))

(* (async function () { var [a,b] = await Promise.all([                    *)
(*     getRandomWithPromise(), getRandomWithPromise() ]); ... })()         *)
PromiseAllExample(w) ==
    LET pr == NextId(w)
        w1 == NewPromise(w)
        w2 == getRandomWithPromise(w1, NextError(w1))
        w3 == getRandomWithPromise(w2, NextError(w2))
    IN  Await(PromiseAll(w3, NextId(w1), NextId(w2)), NextId(w3),
              Cb("PromiseAll.log", pr, Undef, 0, Undef),
              Cb("async.throw", pr, Undef, 0, Undef))

(* (async function () { var random = await 3; console.log(random) })()     *)
AwaitValueExample(w) ==
    AwaitValue(NewPromise(w), Num(3),
               Cb("random.log", NextId(w), Undef, 0, Undef),
               Cb("async.throw", NextId(w), Undef, 0, Undef))

(* (async function () { var random = await thenable; console.log(random) })() *)
AwaitThenableExample(w) ==
    AwaitValue(NewPromise(w), thenable,
               Cb("random.log", NextId(w), Undef, 0, Undef),
               Cb("async.throw", NextId(w), Undef, 0, Undef))

----------------------------------------------------------------------------
(* src/unnamed/part_002: the script binds the name getRandom twice, first  *)
(* to the promise version (line 2), then to the generator version (line    *)
(* 29); a call of getRandom runs the function the name is bound to when    *)
(* the call is made.                                                       *)

Function(name) == [t |-> "function", n |-> 0, s |-> name, items |-> << >>]
PromiseObject(p) == [t |-> "promise", n |-> p, s |-> "", items |-> << >>]
TypeError(msg) == [t |-> "TypeError", n |-> 0, s |-> msg, items |-> << >>]

Throws(w, value) == [w |-> w, kind |-> "throw", value |-> value]

(* getRandom(a, b)                                                         *)
CallGetRandom(w, a, b) ==
    CASE w.getRandom = Function("(error) => { ... }") ->
            Returns(getRandomWithPromise(w, a), PromiseObject(NextId(w)))
      [] w.getRandom = Function("(generator, error) => { ... }") ->
            \* var g = generator();
            IF a.t # "function"
            THEN Throws(w, TypeError("generator is not a function"))
            ELSE Returns(getRandomWithGenerator(w, a.s, b), Undef)
      [] OTHER -> Throws(w, TypeError("getRandom is not a function"))

(* try { return await <the outcome c of the call> } catch(error) { return  *)
(* error }, in the async function whose promise is pr.                     *)
ReturnAwait(pr, c) ==
    IF c.kind = "throw" THEN resolve(c.w, pr, c.value)
    ELSE IF c.value.t = "promise"
    THEN Await(c.w, c.value.n, Cb("getRandomWithAsync.return", pr, Undef, 0, Undef),
                               Cb("getRandomWithAsync.catch", pr, Undef, 0, Undef))
    ELSE AwaitValue(c.w, c.value, Cb("getRandomWithAsync.return", pr, Undef, 0, Undef),
                                  Cb("getRandomWithAsync.catch", pr, Undef, 0, Undef))

(* async function random () { try { return await getRandom() } catch ... }: *)
(* returns the promise NextId(w).                                          *)
random(w) == ReturnAwait(NextId(w), CallGetRandom(NewPromise(w), Undef, Undef))

(* <the outcome c of the call>.then(logResult).catch(logError)             *)
ThenCatch(c) ==
    IF c.kind = "throw" THEN c
    ELSE IF c.value.t # "promise"
    THEN Throws(c.w, TypeError("Cannot read properties of undefined (reading 'then')"))
    ELSE Returns(PromiseCatch(PromiseThen(c.w, c.value.n,
                                          Cb("logResult", 0, Undef, 0, Undef), NoCb),
                              NextId(c.w), Cb("logError", 0, Undef, 0, Undef)), Undef)

(* The statements of the script, by the line they start at.                *)
Part002Statement(w, line) ==
    CASE line = 2 -> Returns([w EXCEPT !.getRandom = Function("(error) => { ... }")], Undef)
      [] line = 18 -> ThenCatch(CallGetRandom(w, NextError(w), Undef))
      [] line = 29 ->
            Returns([w EXCEPT !.getRandom = Function("(generator, error) => { ... }")], Undef)
      [] line = 42 -> CallGetRandom(w, Function("onFulfill"), NextError(w))
      [] line = 62 ->
            Returns(PromiseThen(random(w), NextId(w),
                                Cb("logValue", 0, Undef, 0, Undef), NoCb), Undef)

(* The script without the second binding of the name.                      *)
part_002_boundOnce == << 2, 18, 42, 62 >>

part_002 == << 2, 18, 29, 42, 62 >>

(* src/async-await.js as a script: its statements that do something, by    *)
(* the line they start at (the others define functions, a class and the   *)
(* thenable).                                                              *)
AsyncAwaitStatement(w, line) ==
    CASE line = 18 -> Returns(PromisesExample(w), Undef)
      [] line = 42 -> Returns(GeneratorsExample(w), Undef)
      [] line = 70 -> Returns(AsyncAwaitExample(w), Undef)
      [] line = 82 -> Returns(AwaitExample(w), Undef)
      [] line = 94 -> Returns(ClassesExample(w), Undef)
      [] line = 102 -> Returns(SequentiallyExample(w), Undef)
      [] line = 116 -> Returns(ConcurrentlyExample(w), Undef)
      [] line = 136 -> Returns(PromiseAllExample(w), Undef)
      [] line = 147 -> Returns(AwaitValueExample(w), Undef)
      [] line = 161 -> Returns(AwaitThenableExample(w), Undef)

async_await == << 18, 42, 70, 82, 94, 102, 116, 136, 147, 161 >>

(* The statements of async-await.js that wait for a timer.                 *)
TimerStatements == {18, 42, 70, 82, 94, 102, 116, 136}

(* The script with only the statements at the lines kept.                  *)
RECURSIVE Kept(_, _)
Kept(lines, kept) ==
    IF lines = << >> THEN << >>
    ELSE (IF Head(lines) \in kept THEN << Head(lines) >> ELSE << >>)
            \o Kept(Tail(lines), kept)

Statement(file, w, line) ==
    CASE file = "unnamed/part_002" -> Part002Statement(w, line)
      [] file = "async-await.js" -> AsyncAwaitStatement(w, line)

(* The statements run in order; an exception that no statement catches     *)
(* ends the script.                                                        *)
RECURSIVE RunScript(_, _, _)
AfterStatement(file, r, rest) ==
    IF r.kind = "throw" THEN [r.w EXCEPT !.uncaught = Append(@, r.value)]
    ELSE RunScript(file, r.w, rest)

RunScript(file, w, lines) ==
    IF lines = << >> THEN w
    ELSE AfterStatement(file, Statement(file, w, Head(lines)), Tail(lines))

----------------------------------------------------------------------------
(* The generators document: each snippet creates a generator object and   *)
(* calls next() on it.                                                     *)

MaxCalls == 4
MaxConsumers == 2
MaxMax == 10

(* The generator function each snippet calls to create its object.        *)
SnippetFn(o) ==
    CASE o = "Syntax" -> "generator"               \* const g = generator()
      [] o = "Return" -> "generatorWithReturn"     \* var g = generatorWithReturn()
      [] o = "Throw" -> "generatorWithReturn"      \* var g = generatorWithReturn()
      [] o = "generatorWithThrow" -> "generatorWithThrow"
      [] o = "foo()" -> "bar_call"                 \* const b = bar()
      [] o = "yield* foo()" -> "bar_yieldStar"     \* const b = bar(), bar()
      [] o = "for (let e of foo())" -> "bar_forOf"
      [] o = "const result = yield* foo()" -> "bar_result"       \* bar()
      [] o = "Data Consumers" -> "generatorDataConsumer"  \* var g = generatorDataConsumer()
      [] o = "Implement Iterables" -> "evenNumbersUntil"  \* evenNumbersUntil(10)

Snippets ==
    {"Syntax", "Return", "Throw", "generatorWithThrow", "foo()", "yield* foo()",
     "for (let e of foo())", "const result = yield* foo()", "Data Consumers",
     "Implement Iterables"}

(* The two forms of bar the document gives as the same generator are run   *)
(* side by side; every other snippet is run alone.                         *)
RunWith(o) ==
    IF o \in {"yield* foo()", "for (let e of foo())"}
    THEN {"yield* foo()", "for (let e of foo())"}
    ELSE {o}

(* The arguments a snippet's generator function is called with.            *)
Arguments(o) ==
    IF o = "Implement Iterables" THEN {Num(m) : m \in -2 .. MaxMax} ELSE {Undef}

SentValues == {Undef, Str("foo")}

InitGen ==
    /\ objs = [o \in Snippets |-> NoGenerator]
    /\ hist = [o \in Snippets |-> << >>]
    /\ sent = [o \in Snippets |-> << >>]
    /\ outs = [o \in Snippets |-> << >>]

(* const g = generator()                                                   *)
CallGenerator(o) ==
    /\ objs[o].st = "absent"
    /\ \A x \in Snippets \ RunWith(o) : objs[x].st = "absent"
    /\ \E a \in Arguments(o) :
          objs' = [objs EXCEPT ![o] = Bind(NewGenerator(SnippetFn(o)), "max", a)]
    /\ UNCHANGED <<hist, sent, outs, varsButGen>>

(* g.next(v)                                                               *)
CallNext(o, v) ==
    /\ objs[o].st # "absent"
    /\ Len(hist[o]) < MaxCalls
    /\ LET r == GenNext(objs[o], v) IN
        /\ objs' = [objs EXCEPT ![o] = r.g]
        /\ hist' = [hist EXCEPT ![o] = Append(@, r.res)]
    /\ sent' = [sent EXCEPT ![o] = Append(@, v)]
    /\ UNCHANGED <<outs, varsButGen>>

(* A generator whose body loops for ever is given to no data consumer.     *)
Endless(fn) == fn = "generatorDataConsumer"

(* What one run of a data consumer is recorded as: after is the number of  *)
(* next() calls the object had answered before the consumer started.       *)
Consumed(by, after, results) ==
    [by |-> by, after |-> after, values |-> Received(results),
     threw |-> results[Len(results)].kind = "throw"]

(* The consumer by of object o has drained it: r is what Consume gives.    *)
Drained(o, by, r) ==
    /\ objs' = [objs EXCEPT ![o] = r.g]
    /\ hist' = [hist EXCEPT ![o] = @ \o r.results]
    /\ sent' = [sent EXCEPT ![o] = @ \o [i \in 1 .. Len(r.results) |-> Undef]]
    /\ outs' = [outs EXCEPT ![o] = Append(@, Consumed(by, Len(hist[o]), r.results))]

(* for (let e of g) { console.log(e) }                                     *)
ForOf(o) ==
    /\ objs[o].st # "absent"
    /\ ~Endless(objs[o].fn)
    /\ Len(outs[o]) < MaxConsumers
    /\ Drained(o, "for-of", Consume(objs[o], << >>))
    /\ UNCHANGED varsButGen

(* console.log([...g])                                                     *)
Spread(o) ==
    /\ objs[o].st # "absent"
    /\ ~Endless(objs[o].fn)
    /\ Len(outs[o]) < MaxConsumers
    /\ Drained(o, "spread", Consume(objs[o], << >>))
    /\ UNCHANGED varsButGen

NextGen ==
    \/ \E o \in Snippets : CallGenerator(o)
    \/ \E o \in Snippets, v \in SentValues : CallNext(o, v)
    \/ \E o \in Snippets : ForOf(o)
    \/ \E o \in Snippets : Spread(o)

----------------------------------------------------------------------------
(* src/async-await.js: one example is run; then the event loop runs the    *)
(* queued jobs, and fires the timers when no job is left.  The examples    *)
(* make their requests without an error argument; each request is run for  *)
(* both values of the argument of getRandomWithPromise and                 *)
(* getRandomWithGenerator (the request succeeds, the request fails).       *)

InitAsync ==
    /\ example = ""
    /\ errs = << >>
    /\ calls = 0
    /\ promises = << >>
    /\ microtasks = << >>
    /\ timers = << >>
    /\ now = 0
    /\ gen = NoGenerator
    /\ all = [values |-> << >>, remaining |-> 0]
    /\ log = << >>
    /\ uncaught = << >>
    /\ getRandom = Undef

(* The values an example's request is run with as its error argument:     *)
(* none, a value that is not truthy, a truthy value.                       *)
ErrorArguments == {Undef, Num(0), True}

Start(x, e) == [World EXCEPT !.example = x, !.errs = e]

Promises ==
    /\ example = ""
    /\ \E e \in [Requests("Promises") -> ErrorArguments] :
            Commit(PromisesExample(Start("Promises", e)))
    /\ UNCHANGED varsButAsync

Generators ==
    /\ example = ""
    /\ \E e \in [Requests("Generators") -> ErrorArguments] :
            Commit(GeneratorsExample(Start("Generators", e)))
    /\ UNCHANGED varsButAsync

AsyncAwait ==
    /\ example = ""
    /\ \E e \in [Requests("async / await") -> ErrorArguments] :
            Commit(AsyncAwaitExample(Start("async / await", e)))
    /\ UNCHANGED varsButAsync

Sequentially ==
    /\ example = ""
    /\ \E e \in [Requests("Sequentially") -> ErrorArguments] :
            Commit(SequentiallyExample(Start("Sequentially", e)))
    /\ UNCHANGED varsButAsync

Concurrently ==
    /\ example = ""
    /\ \E e \in [Requests("Concurrently") -> ErrorArguments] :
            Commit(ConcurrentlyExample(Start("Concurrently", e)))
    /\ UNCHANGED varsButAsync

ConcurrentlyWithPromiseAll ==
    /\ example = ""
    /\ \E e \in [Requests("Concurrently (with Promise.all)") -> ErrorArguments] :
            Commit(PromiseAllExample(Start("Concurrently (with Promise.all)", e)))
    /\ UNCHANGED varsButAsync

AwaitValue3 ==
    /\ example = ""
    /\ \E e \in [Requests("await 3") -> ErrorArguments] :
            Commit(AwaitValueExample(Start("await 3", e)))
    /\ UNCHANGED varsButAsync

AwaitThenable ==
    /\ example = ""
    /\ \E e \in [Requests("await thenable") -> ErrorArguments] :
            Commit(AwaitThenableExample(Start("await thenable", e)))
    /\ UNCHANGED varsButAsync

MaxExamples == 2

(* The script src/unnamed/part_002 runs from its first line to its last.    *)
Part002 ==
    /\ example = ""
    /\ \E e \in [{1, 2} -> ErrorArguments] :
            Commit(RunScript("unnamed/part_002", Start("unnamed/part_002", e), part_002))
    /\ UNCHANGED varsButAsync

(* The script src/async-await.js runs from its first line to its last,     *)
(* every request without an error argument.  Of its statements that wait   *)
(* for a timer, which are independent of each other, at most MaxExamples   *)
(* are kept.                                                               *)
AsyncAwaitJs ==
    /\ example = ""
    /\ \E kept \in SUBSET TimerStatements :
            /\ Cardinality(kept) <= MaxExamples
            /\ Commit(RunScript("async-await.js",
                                Start("async-await.js", [i \in 1 .. 2 * MaxExamples |-> Undef]),
                                Kept(async_await, kept \cup {147, 161})))
    /\ UNCHANGED varsButAsync

(* The event loop runs the job at the head of the microtask queue.         *)
RunMicrotask ==
    /\ example # ""
    /\ microtasks # << >>
    /\ Commit(RunJob([World EXCEPT !.microtasks = Tail(@)], Head(microtasks)))
    /\ UNCHANGED varsButAsync

(* With no job left, the clock reaches the due time of the oldest timer    *)
(* and its callback runs.                                                  *)
FireTimer ==
    /\ example # ""
    /\ microtasks = << >>
    /\ timers # << >>
    /\ \E k \in MathRandom :
            Commit(TimerCallback([World EXCEPT !.timers = Tail(@),
                                               !.now = Head(timers).due],
                                 Head(timers).cb, k))
    /\ UNCHANGED varsButAsync

NextAsync ==
    \/ Promises
    \/ Generators
    \/ AsyncAwait
    \/ Sequentially
    \/ Concurrently
    \/ ConcurrentlyWithPromiseAll
    \/ AwaitValue3
    \/ AwaitThenable
    \/ RunMicrotask
    \/ FireTimer

----------------------------------------------------------------------------
(* src/iterables-iterators.md (earlier version: src/iteration.md):         *)
(* iterators, iterables and the for-of loop.                               *)

MaxLen == 3
MaxIterCalls == 5
MaxLoops == 2

(* const array = ['foo','bar','zed']: the arrays the array iterator is     *)
(* tried on are those of at most MaxLen such elements.                     *)
Elements == {Str("foo"), Str("bar"), Str("zed")}
Arrays == UNION {[1 .. n -> Elements] : n \in 0 .. MaxLen}

(* The object a call of next() or return() returns, with the keys it has.  *)
ResultObject(keys, value, done) == [keys |-> keys, value |-> value, done |-> done]

(* How a consumer reads a result object: a key that is left out reads as   *)
(* undefined, which for done counts as false.                              *)
IteratorCompleteUnlessSaid(r) == "done" \notin r.keys \/ r.done
IteratorComplete(r) == "done" \in r.keys /\ r.done
IteratorValue(r) == IF "value" \in r.keys THEN r.value ELSE Undef

(* An iterator object: data and index are what it iterates over and how    *)
(* far an array iterator has got, done is its property done, and global    *)
(* holds the global variable done once next() of the closable iterable has *)
(* assigned it.                                                            *)
Iterator(kind, data) ==
    [kind |-> kind, data |-> data, index |-> 0, done |-> FALSE, global |-> << >>]
NoIterator == Iterator("absent", << >>)

(* array[Symbol.iterator]()                                                *)
ArrayIterator(array) == Iterator("array iterator", array)

(* iterable[Symbol.iterator](): let data = ['foo','bar']                   *)
IterableIterator(kind) == Iterator(kind, << Str("foo"), Str("bar") >>)

(* const iterable = { done: false, data: ['foo','bar','zed'], ... }        *)
ClosableIterable == Iterator("closable iterable", << Str("foo"), Str("bar"), Str("zed") >>)

(* data.pop(): the last element, or undefined when there is none.          *)
Popped(data) == IF data = << >> THEN Undef ELSE data[Len(data)]
AfterPop(data) == IF data = << >> THEN << >> ELSE SubSeq(data, 1, Len(data) - 1)

(* next() of an array iterator                                             *)
ArrayIteratorNextStopsEarly(it) ==
    IF it.index + 1 < Len(it.data)
    THEN [it |-> [it EXCEPT !.index = @ + 1],
          res |-> ResultObject({"value", "done"}, it.data[it.index + 1], FALSE)]
    ELSE [it |-> it, res |-> ResultObject({"value", "done"}, Undef, TRUE)]
ArrayIteratorNext(it) ==
    IF it.index < Len(it.data)
    THEN [it |-> [it EXCEPT !.index = @ + 1],
          res |-> ResultObject({"value", "done"}, it.data[it.index + 1], FALSE)]
    ELSE [it |-> it, res |-> ResultObject({"value", "done"}, Undef, TRUE)]

(* next() { return { value: data.pop(), done: data.length === 0 } }: the   *)
(* order the document warns against, the element popped before the         *)
(* remaining ones are counted.                                             *)
IterableNextValueFirst(it) ==
    [it |-> [it EXCEPT !.data = AfterPop(@)],
     res |-> ResultObject({"value", "done"}, Popped(it.data), AfterPop(it.data) = << >>)]

(* next() { return { done: data.length === 0, value: data.pop() } }        *)
IterableNextCountsAfterPop(it) == IterableNextValueFirst(it)
IterableNext(it) ==
    [it |-> [it EXCEPT !.data = AfterPop(@)],
     res |-> ResultObject({"done", "value"}, Popped(it.data), it.data = << >>)]

(* next() of the closable iterable:                                        *)
(* done = this.done || this.data.length === 0                              *)
(* return done ? { done: true } : { value: this.data.pop() }               *)
ClosableNext(it) ==
    LET done == it.done \/ it.data = << >> IN
    IF done
    THEN [it |-> [it EXCEPT !.global = << done >>],
          res |-> ResultObject({"done"}, Undef, TRUE)]
    ELSE [it |-> [it EXCEPT !.global = << done >>, !.data = AfterPop(@)],
          res |-> ResultObject({"value"}, Popped(it.data), FALSE)]

(* return() { this.done = true; return { done: true } }                    *)
ClosableReturnForgets(it) ==
    [it |-> it, res |-> ResultObject({"done"}, Undef, TRUE)]
ClosableReturn(it) ==
    [it |-> [it EXCEPT !.done = TRUE], res |-> ResultObject({"done"}, Undef, TRUE)]

(* iterator.next()                                                         *)
IteratorNext(it) ==
    CASE it.kind = "array iterator" -> ArrayIteratorNext(it)
      [] it.kind = "iterable" -> IterableNext(it)
      [] it.kind = "iterator as an iterable" -> IterableNext(it)
      [] it.kind = "iterable (value first)" -> IterableNextValueFirst(it)
      [] it.kind = "closable iterable" -> ClosableNext(it)

(* Not all iterators implement the return method.                          *)
HasReturn(it) == it.kind = "closable iterable"

(* x[Symbol.iterator](), as for-of calls it on what it loops over: the     *)
(* hand-written iterable makes a new iterator with its own data, an array  *)
(* iterator, the iterator built as an iterable and the closable iterable   *)
(* return themselves.                                                      *)
SymbolIteratorAlwaysNew(it) ==
    CASE it.kind \in {"iterable", "iterable (value first)", "iterator as an iterable"} ->
            IterableIterator(it.kind)
      [] it.kind = "array iterator" -> ArrayIterator(it.data)
      [] it.kind = "closable iterable" -> ClosableIterable
SymbolIterator(it) ==
    IF it.kind \in {"iterable", "iterable (value first)"}
    THEN IterableIterator(it.kind)
    ELSE it

(* A call made on an iterator, by hand or by a for-of loop, with the result *)
(* object it returned.                                                     *)
Called(by, op, res) == [by |-> by, op |-> op, res |-> res]

(* for (let e of x) { console.log(e); [break] }: next() is called until a  *)
(* result is done; the value of every other result is logged; a break      *)
(* leaves the loop after the first element, calling return() when the      *)
(* iterator has one.  l is the loop so far: its iterator, the calls it     *)
(* made and the values it logged.                                          *)
RECURSIVE Loop(_, _)
Logged(l, r, op) ==
    [it |-> r.it, made |-> Append(l.made, Called("for-of", op, r.res)),
     values |-> IF op = "next" /\ ~IteratorComplete(r.res)
                THEN Append(l.values, IteratorValue(r.res)) ELSE l.values]
Break(l) == IF HasReturn(l.it) THEN Logged(l, ClosableReturn(l.it), "return") ELSE l
LoopBody(l, r, breaks) ==
    IF IteratorComplete(r.res) THEN Logged(l, r, "next")
    ELSE IF breaks THEN Break(Logged(l, r, "next"))
    ELSE Loop(Logged(l, r, "next"), breaks)
Loop(l, breaks) == LoopBody(l, IteratorNext(l.it), breaks)

ForOfLoop(it, breaks) == Loop([it |-> SymbolIterator(it), made |-> << >>, values |-> << >>], breaks)

(* The snippets of the document, by the object they iterate.               *)
IterSnippets ==
    {"array iterator", "iterable", "iterable (value first)", "iterator as an iterable",
     "closable iterable"}

(* The iterators a snippet can start from.                                 *)
NewIterators(o) ==
    CASE o = "array iterator" -> {ArrayIterator(array) : array \in Arrays}
      [] o = "closable iterable" -> {ClosableIterable}
      [] OTHER -> {IterableIterator(o)}

InitIter ==
    /\ its = [o \in IterSnippets |-> NoIterator]
    /\ ires = [o \in IterSnippets |-> << >>]
    /\ loops = [o \in IterSnippets |-> << >>]

(* const iterator = array[Symbol.iterator]()                               *)
GetIterator(o) ==
    /\ \A x \in IterSnippets : its[x].kind = "absent"
    /\ \E it \in NewIterators(o) : its' = [its EXCEPT ![o] = it]
    /\ UNCHANGED <<ires, loops, varsButIter>>

(* The iterator has answered call op with r.                               *)
Answered(o, op, r) ==
    /\ its' = [its EXCEPT ![o] = r.it]
    /\ ires' = [ires EXCEPT ![o] = Append(@, Called("by hand", op, r.res))]

(* iterator.next()                                                         *)
CallIteratorNext(o) ==
    /\ its[o].kind # "absent"
    /\ Len(ires[o]) < MaxIterCalls
    /\ Answered(o, "next", IteratorNext(its[o]))
    /\ UNCHANGED <<loops, varsButIter>>

(* iterator.return()                                                       *)
CallIteratorReturn(o) ==
    /\ its[o].kind # "absent"
    /\ HasReturn(its[o])
    /\ Len(ires[o]) < MaxIterCalls
    /\ Answered(o, "return", ClosableReturn(its[o]))
    /\ UNCHANGED <<loops, varsButIter>>

(* A for-of loop has run as l over the object of snippet o.  When the      *)
(* object is its own iterator the loop's calls are calls on it; otherwise  *)
(* the loop has used an iterator of its own.  after is the number of calls *)
(* the loop's iterator had answered before the loop.                       *)
Looped(o, breaks, l) ==
    LET same == SymbolIterator(its[o]) = its[o] IN
    /\ its' = [its EXCEPT ![o] = IF same THEN l.it ELSE @]
    /\ ires' = [ires EXCEPT ![o] = IF same THEN @ \o l.made ELSE @]
    /\ loops' = [loops EXCEPT ![o] =
                    Append(@, [values |-> l.values, breaks |-> breaks,
                               after |-> IF same THEN Len(ires[o]) ELSE 0])]

(* for (let e of iterator) { console.log(e) }                              *)
ForOfIterator(o) ==
    /\ its[o].kind # "absent"
    /\ Len(loops[o]) < MaxLoops
    /\ Looped(o, FALSE, ForOfLoop(its[o], FALSE))
    /\ UNCHANGED varsButIter

(* for (let e of iterator) { console.log(e); break }                       *)
ForOfBreak(o) ==
    /\ its[o].kind # "absent"
    /\ Len(loops[o]) < MaxLoops
    /\ Looped(o, TRUE, ForOfLoop(its[o], TRUE))
    /\ UNCHANGED varsButIter

NextIter ==
    \/ \E o \in IterSnippets : GetIterator(o)
    \/ \E o \in IterSnippets : CallIteratorNext(o)
    \/ \E o \in IterSnippets : CallIteratorReturn(o)
    \/ \E o \in IterSnippets : ForOfIterator(o)
    \/ \E o \in IterSnippets : ForOfBreak(o)

----------------------------------------------------------------------------
(* src/string.js: String.prototype.padStart and String.prototype.padEnd.   *)
(* A string is the sequence of its characters.                             *)

MaxPad == 10

Null == [t |-> "null", n |-> 0, s |-> "", items |-> << >>]
Text(chars) == [t |-> "string", n |-> 0, s |-> "", items |-> chars]

(* The decimal digits of a number that is not negative.                    *)
RECURSIVE Digits(_)
Digits(n) ==
    LET d == << "0", "1", "2", "3", "4", "5", "6", "7", "8", "9" >>[(n % 10) + 1] IN
    IF n < 10 THEN << d >> ELSE Append(Digits(n \div 10), d)

(* The conversion of an argument to a string.                              *)
AsString(v) ==
    CASE v.t = "string" -> v.items
      [] v.t = "undefined" -> << "u", "n", "d", "e", "f", "i", "n", "e", "d" >>
      [] v.t = "null" -> << "n", "u", "l", "l" >>
      [] v.t = "number" -> Digits(v.n)
      [] v.t = "boolean" -> IF v.n = 1 THEN << "t", "r", "u", "e" >>
                            ELSE << "f", "a", "l", "s", "e" >>

(* The filler of a padding call: a space when the argument is left out or  *)
(* undefined, the argument as a string otherwise.                          *)
FillerOfText(fillString) == AsString(fillString)
Filler(fillString) ==
    IF fillString.t = "undefined" THEN << " " >> ELSE AsString(fillString)

(* filler repeated and cut to fillLen characters (filler is not empty).    *)
Repeated(filler, fillLen) == [i \in 1 .. fillLen |-> filler[((i - 1) % Len(filler)) + 1]]

(* s.padStart(maxLength, fillString) and s.padEnd(maxLength, fillString):  *)
(* s when it is long enough already or the filler is empty, and otherwise  *)
(* s with the repeated filler before it (padStart) or after it (padEnd).   *)
StringPadAtEnd(s, maxLength, fillString, placement) ==
    IF maxLength <= Len(s) \/ Filler(fillString) = << >> THEN s
    ELSE s \o Repeated(Filler(fillString), maxLength - Len(s))
StringPad(s, maxLength, fillString, placement) ==
    IF maxLength <= Len(s) \/ Filler(fillString) = << >> THEN s
    ELSE IF placement = "start"
         THEN Repeated(Filler(fillString), maxLength - Len(s)) \o s
         ELSE s \o Repeated(Filler(fillString), maxLength - Len(s))

padStart(s, maxLength, fillString) == StringPad(s, maxLength, fillString, "start")
padEnd(s, maxLength, fillString) == StringPad(s, maxLength, fillString, "end")

(* The strings and the arguments the calls are tried on: those of          *)
(* string.js, and an empty string, a one-character and an empty filler.    *)
Strings == {<< >>, << "f", "o", "o" >>, << "a", "b", "c", "d", "e" >>}
Lengths == -1 .. MaxPad
FillStrings ==
    {Undef, Null, Num(0), Text(<< "1", "2", "3" >>), Text(<< "x" >>), Text(<< >>)}

NoCall == [fn |-> "", s |-> << >>, maxLength |-> 0, fillString |-> Undef, result |-> << >>]
PadCall(fn, s, maxLength, fillString, result) ==
    [fn |-> fn, s |-> s, maxLength |-> maxLength, fillString |-> fillString,
     result |-> result]

(* A run evaluates one call of string.js or the statements of object.js.   *)
LibraryUnused == pad = NoCall /\ obj = << >> /\ seen = [values |-> << >>, entries |-> << >>, forIn |-> << >>]

(* 'foo'.padStart(10, '123')                                               *)
CallPadStart ==
    /\ LibraryUnused
    /\ \E s \in Strings, n \in Lengths, f \in FillStrings :
          pad' = PadCall("padStart", s, n, f, padStart(s, n, f))
    /\ UNCHANGED <<obj, seen, varsButLib>>

(* 'foo'.padEnd(10, '123')                                                 *)
CallPadEnd ==
    /\ LibraryUnused
    /\ \E s \in Strings, n \in Lengths, f \in FillStrings :
          pad' = PadCall("padEnd", s, n, f, padEnd(s, n, f))
    /\ UNCHANGED <<obj, seen, varsButLib>>

----------------------------------------------------------------------------
(* src/object.js: Object.values, Object.entries and the for...in loop.     *)

MaxProps == 3

(* The property keys and values obj is built from: those of object.js and  *)
(* two keys that are array indices ('0', '1').                             *)
Keys == {Str("foo"), Str("bar"), Num(0), Num(1)}
PropertyValues == {Str("Mr.Foo"), Str("Mr.Bar")}

Property(key, value) == [key |-> key, value |-> value]

(* var obj = { foo: 'Mr.Foo', bar: 'Mr.Bar' }                              *)
objLiteral == << Property(Str("foo"), Str("Mr.Foo")), Property(Str("bar"), Str("Mr.Bar")) >>

(* The numbers of set S in ascending order.                                *)
RECURSIVE Ascending(_)
Ascending(S) ==
    IF S = {} THEN << >>
    ELSE LET least == CHOOSE x \in S : \A y \in S : x <= y
         IN  << least >> \o Ascending(S \ {least})

(* The keys of o in creation order, those of type t only.                  *)
RECURSIVE KeysOfType(_, _)
KeysOfType(o, t) ==
    IF o = << >> THEN << >>
    ELSE (IF o[1].key.t = t THEN << o[1].key >> ELSE << >>) \o KeysOfType(Tail(o), t)

(* The order in which the own properties of an object are listed: array    *)
(* indices in ascending order, then the other keys in creation order.      *)
OwnPropertyKeys(o) ==
    LET indices == Ascending({o[i].key.n : i \in {j \in 1 .. Len(o) : o[j].key.t = "number"}})
    IN  [i \in 1 .. Len(indices) |-> Num(indices[i])] \o KeysOfType(o, "string")

(* obj[key]                                                                *)
Get(o, key) == o[CHOOSE i \in 1 .. Len(o) : o[i].key = key].value

(* Object.values(obj)                                                      *)
ObjectValuesAsCreated(o) == [i \in 1 .. Len(o) |-> o[i].value]
ObjectValues(o) ==
    LET keys == OwnPropertyKeys(o) IN [i \in 1 .. Len(keys) |-> Get(o, keys[i])]

(* Object.entries(obj)                                                     *)
ObjectEntries(o) ==
    LET keys == OwnPropertyKeys(o) IN [i \in 1 .. Len(keys) |-> << keys[i], Get(o, keys[i]) >>]

(* for (var key in obj): the keys in the order the loop visits them.  An   *)
(* object literal inherits no enumerable property.                         *)
ForIn(o) == OwnPropertyKeys(o)

NothingSeen == [values |-> << >>, entries |-> << >>, forIn |-> << >>]

InitLib ==
    /\ pad = NoCall
    /\ obj = << >>
    /\ seen = NothingSeen

(* One more property of the object literal is created.                     *)
CreateProperty ==
    /\ pad = NoCall
    /\ seen = NothingSeen
    /\ Len(obj) < MaxProps
    /\ \E key \in Keys, value \in PropertyValues :
          /\ \A i \in 1 .. Len(obj) : obj[i].key # key
          /\ obj' = Append(obj, Property(key, value))
    /\ UNCHANGED <<pad, seen, varsButLib>>

(* Object.values(obj)                                                      *)
CallObjectValues ==
    /\ pad = NoCall
    /\ seen.values = << >>
    /\ seen' = [seen EXCEPT !.values = << ObjectValues(obj) >>]
    /\ UNCHANGED <<pad, obj, varsButLib>>

(* Object.entries(obj)                                                     *)
CallObjectEntries ==
    /\ pad = NoCall
    /\ seen.entries = << >>
    /\ seen' = [seen EXCEPT !.entries = << ObjectEntries(obj) >>]
    /\ UNCHANGED <<pad, obj, varsButLib>>

(* for (var key in obj) { ... }                                            *)
ForInLoop ==
    /\ pad = NoCall
    /\ seen.forIn = << >>
    /\ seen' = [seen EXCEPT !.forIn = << ForIn(obj) >>]
    /\ UNCHANGED <<pad, obj, varsButLib>>

NextLib ==
    \/ CallPadStart
    \/ CallPadEnd
    \/ CreateProperty
    \/ CallObjectValues
    \/ CallObjectEntries
    \/ ForInLoop

----------------------------------------------------------------------------
(* The documents and their tables of contents: README.md, the generators   *)
(* document and the iterables document.  The renderer gives every heading  *)
(* an anchor; a link of a table of contents, (#anchor), resolves when a    *)
(* heading of the same document has that anchor.  Texts are sequences of   *)
(* characters.                                                             *)

Heading(level, text) == [level |-> level, text |-> text]

(* The character that encloses inline code in markdown (U+0060), by name.  *)
GraveAccent == "grave accent"

(* src/README.md: its headings, in order.                               *)
readmeHeadings ==
    << Heading(1, << "E", "S", "8", " ", "(", "E", "C", "M", "A", "S", "c", "r", "i", "p", "t", " ", "2", "0", "1", "7", ")" >>),
       Heading(2, << "T", "r", "a", "i", "l", "i", "n", "g", " ", "C", "o", "m", "m", "a", "s" >>),
       Heading(2, << "O", "b", "j", "e", "c", "t", ".", "v", "a", "l", "u", "e", "s", " ", "/", " ", "O", "b", "j", "e", "c", "t", ".", "e", "n", "t", "r", "i", "e", "s" >>),
       Heading(3, << "O", "b", "j", "e", "c", "t", ".", "v", "a", "l", "u", "e", "s" >>),
       Heading(3, << "O", "b", "j", "e", "c", "t", ".", "e", "n", "t", "r", "i", "e", "s" >>),
       Heading(2, << "O", "b", "j", "e", "c", "t", ".", "g", "e", "t", "O", "w", "n", "P", "r", "o", "p", "e", "r", "t", "y", "D", "e", "s", "c", "r", "i", "p", "t", "o", "r", "s" >>),
       Heading(2, << "S", "t", "r", "i", "n", "g", " ", "P", "a", "d", "d", "i", "n", "g" >>),
       Heading(2, << "a", "s", "y", "n", "c", " ", "/", " ", "a", "w", "a", "i", "t" >>),
       Heading(3, << "P", "r", "o", "m", "i", "s", "e", "s" >>),
       Heading(3, << "G", "e", "n", "e", "r", "a", "t", "o", "r", "s" >>),
       Heading(3, << "a", "s", "y", "n", "c", " ", "/", " ", "a", "w", "a", "i", "t" >>),
       Heading(4, << "a", "w", "a", "i", "t" >>),
       Heading(4, << "C", "l", "a", "s", "s", "e", "s" >>),
       Heading(4, << "M", "u", "l", "t", "i", "p", "l", "e", " ", "P", "r", "o", "m", "i", "s", "e", "s" >>),
       Heading(5, << "S", "e", "q", "u", "e", "n", "t", "i", "a", "l", "l", "y" >>),
       Heading(5, << "C", "o", "n", "c", "u", "r", "r", "e", "n", "t", "l", "y" >>),
       Heading(5, << "C", "o", "n", "c", "u", "r", "r", "e", "n", "t", "l", "y", " ", "(", "w", "i", "t", "h", " ", GraveAccent, "P", "r", "o", "m", "i", "s", "e", ".", "a", "l", "l", GraveAccent, ")" >>),
       Heading(4, << "a", "w", "a", "i", "t", " ", "a", "n", "d", " ", "t", "h", "e", "n", "a", "b", "l", "e" >>),
       Heading(3, << "F", "u", "r", "t", "h", "e", "r", " ", "R", "e", "a", "d", "i", "n", "g" >>),
       Heading(2, << "T", "h", "a", "n", "k", "s", " ", "t", "o", " ", ":", "b", "e", "e", "r", "s", ":" >>) >>

(* src/README.md: the anchors its table of contents links to.           *)
readmeLinks ==
    << << "t", "r", "a", "i", "l", "i", "n", "g", "-", "c", "o", "m", "m", "a", "s" >>,
       << "o", "b", "j", "e", "c", "t", "v", "a", "l", "u", "e", "s", "-", "-", "o", "b", "j", "e", "c", "t", "e", "n", "t", "r", "i", "e", "s" >>,
       << "o", "b", "j", "e", "c", "t", "v", "a", "l", "u", "e", "s" >>,
       << "o", "b", "j", "e", "c", "t", "e", "n", "t", "r", "i", "e", "s" >>,
       << "o", "b", "j", "e", "c", "t", "g", "e", "t", "o", "w", "n", "p", "r", "o", "p", "e", "r", "t", "y", "d", "e", "s", "c", "r", "i", "p", "t", "o", "r", "s" >>,
       << "s", "t", "r", "i", "n", "g", "-", "p", "a", "d", "d", "i", "n", "g" >>,
       << "a", "s", "y", "n", "c", "-", "-", "a", "w", "a", "i", "t", "-", "1" >>,
       << "a", "w", "a", "i", "t" >>,
       << "c", "l", "a", "s", "s", "e", "s" >>,
       << "m", "u", "l", "t", "i", "p", "l", "e", "-", "p", "r", "o", "m", "i", "s", "e", "s" >>,
       << "a", "w", "a", "i", "t", "-", "a", "n", "d", "-", "t", "h", "e", "n", "a", "b", "l", "e" >> >>

(* src/unnamed/part_001: its headings, in order.                        *)
generatorsHeadings ==
    << Heading(1, << "G", "e", "n", "e", "r", "a", "t", "o", "r", "s" >>),
       Heading(2, << "I", "n", "t", "r", "o", "d", "u", "c", "t", "i", "o", "n" >>),
       Heading(2, << "S", "y", "n", "t", "a", "x" >>),
       Heading(3, << "y", "i", "e", "l", "d" >>),
       Heading(3, << "y", "i", "e", "l", "d", "*" >>),
       Heading(2, << "G", "e", "n", "e", "r", "a", "t", "o", "r", "s", " ", "a", "s", " ", "I", "t", "e", "r", "a", "t", "o", "r", "s" >>),
       Heading(3, << "R", "e", "t", "u", "r", "n" >>),
       Heading(4, << "y", "i", "e", "l", "d", "*" >>),
       Heading(3, << "T", "h", "r", "o", "w" >>),
       Heading(2, << "G", "e", "n", "e", "r", "a", "t", "o", "r", "s", " ", "a", "s", " ", "D", "a", "t", "a", " ", "C", "o", "n", "s", "u", "m", "e", "r", "s" >>),
       Heading(2, << "U", "s", "e", " ", "C", "a", "s", "e", "s" >>),
       Heading(3, << "I", "m", "p", "l", "e", "m", "e", "n", "t", " ", "I", "t", "e", "r", "a", "b", "l", "e", "s" >>),
       Heading(3, << "A", "s", "y", "n", "c", "h", "r", "o", "n", "o", "u", "s", " ", "C", "o", "d", "e" >>),
       Heading(2, << "C", "o", "n", "c", "l", "u", "s", "i", "o", "n" >>),
       Heading(2, << "T", "h", "a", "n", "k", "s", " ", "t", "o", " ", ":", "b", "e", "e", "r", "s", ":" >>) >>

(* src/unnamed/part_001: the anchors its table of contents links to.    *)
generatorsLinks ==
    << << "s", "y", "n", "t", "a", "x" >>,
       << "y", "i", "e", "l", "d" >>,
       << "y", "i", "e", "l", "d", "-", "1" >>,
       << "g", "e", "n", "e", "r", "a", "t", "o", "r", "s", "-", "a", "s", "-", "i", "t", "e", "r", "a", "t", "o", "r", "s" >>,
       << "r", "e", "t", "u", "r", "n" >>,
       << "t", "h", "r", "o", "w" >>,
       << "g", "e", "n", "e", "r", "a", "t", "o", "r", "s", "-", "a", "s", "-", "d", "a", "t", "a", "-", "c", "o", "n", "s", "u", "m", "e", "r", "s" >>,
       << "u", "s", "e", "-", "c", "a", "s", "e", "s" >>,
       << "i", "m", "p", "l", "e", "m", "e", "n", "t", "-", "i", "t", "e", "r", "a", "b", "l", "e", "s" >>,
       << "a", "s", "y", "n", "c", "h", "r", "o", "n", "o", "u", "s", "-", "c", "o", "d", "e" >>,
       << "c", "o", "n", "c", "l", "u", "s", "i", "o", "n" >> >>

(* src/iterables-iterators.md: its headings, in order.                  *)
iterablesHeadings ==
    << Heading(1, << "I", "t", "e", "r", "a", "b", "l", "e", "s", " ", "a", "n", "d", " ", "I", "t", "e", "r", "a", "t", "o", "r", "s" >>),
       Heading(2, << "I", "n", "t", "r", "o", "d", "u", "c", "t", "i", "o", "n" >>),
       Heading(2, << "P", "r", "o", "t", "o", "c", "o", "l" >>),
       Heading(2, << "I", "t", "e", "r", "a", "b", "i", "l", "i", "t", "y" >>),
       Heading(4, << "I", "n", " ", "P", "r", "a", "c", "t", "i", "c", "e" >>),
       Heading(3, << "I", "t", "e", "r", "a", "b", "l", "e", " ", "D", "a", "t", "a", " ", "S", "o", "u", "r", "c", "e", "s" >>),
       Heading(4, << "P", "l", "a", "i", "n", " ", "O", "b", "j", "e", "c", "t", "s" >>),
       Heading(2, << "I", "m", "p", "l", "e", "m", "e", "n", "t", " ", "I", "t", "e", "r", "a", "b", "l", "e", "s" >>),
       Heading(3, << "E", "x", "a", "m", "p", "l", "e" >>),
       Heading(3, << "I", "t", "e", "r", "a", "t", "o", "r", " ", "a", "s", " ", "a", "n", " ", "I", "t", "e", "r", "a", "b", "l", "e" >>),
       Heading(3, << "R", "e", "t", "u", "r", "n", " ", "a", "n", "d", " ", "T", "h", "r", "o", "w" >>),
       Heading(4, << "R", "e", "t", "u", "r", "n" >>),
       Heading(4, << "T", "h", "r", "o", "w" >>),
       Heading(2, << "C", "o", "n", "c", "l", "u", "s", "i", "o", "n" >>),
       Heading(2, << "T", "h", "a", "n", "k", "s", " ", "t", "o", " ", ":", "b", "e", "e", "r", "s", ":" >>) >>

(* src/iterables-iterators.md: the anchors its table of contents links to. *)
iterablesLinks ==
    << << "p", "r", "o", "t", "o", "c", "o", "l" >>,
       << "i", "t", "e", "r", "a", "b", "i", "l", "i", "t", "y" >>,
       << "i", "t", "e", "r", "a", "b", "l", "e", "-", "d", "a", "t", "a", "-", "s", "o", "u", "r", "c", "e", "s" >>,
       << "i", "m", "p", "l", "e", "m", "e", "n", "t", "-", "i", "t", "e", "r", "a", "b", "l", "e", "s" >>,
       << "i", "t", "e", "r", "a", "t", "o", "r", "-", "a", "s", "-", "a", "n", "-", "i", "t", "e", "r", "a", "b", "l", "e" >>,
       << "r", "e", "t", "u", "r", "n", "-", "a", "n", "d", "-", "t", "h", "r", "o", "w" >> >>

Documents == {"README.md", "unnamed/part_001", "iterables-iterators.md"}

Headings(d) ==
    CASE d = "README.md" -> readmeHeadings
      [] d = "unnamed/part_001" -> generatorsHeadings
      [] d = "iterables-iterators.md" -> iterablesHeadings

Links(d) ==
    CASE d = "README.md" -> readmeLinks
      [] d = "unnamed/part_001" -> generatorsLinks
      [] d = "iterables-iterators.md" -> iterablesLinks

UpperCase ==
    << "A", "B", "C", "D", "E", "F", "G", "H", "I", "J", "K", "L", "M",
       "N", "O", "P", "Q", "R", "S", "T", "U", "V", "W", "X", "Y", "Z" >>

LowerCase ==
    << "a", "b", "c", "d", "e", "f", "g", "h", "i", "j", "k", "l", "m",
       "n", "o", "p", "q", "r", "s", "t", "u", "v", "w", "x", "y", "z" >>

(* The characters an anchor keeps: letters, digits, hyphen and underscore. *)
WordCharacters ==
    {LowerCase[i] : i \in DOMAIN LowerCase}
        \cup {"0", "1", "2", "3", "4", "5", "6", "7", "8", "9", "-", "_"}

LowerCased(c) ==
    IF \E i \in DOMAIN UpperCase : UpperCase[i] = c
    THEN LowerCase[CHOOSE i \in DOMAIN UpperCase : UpperCase[i] = c]
    ELSE c

(* What one character of a heading becomes in its anchor: a space becomes *)
(* a hyphen, a letter its lower case, punctuation nothing.                 *)
SlugCharacter(c) ==
    IF c = " " THEN << "-" >>
    ELSE IF LowerCased(c) \in WordCharacters THEN << LowerCased(c) >>
    ELSE << >>

RECURSIVE Slug(_)
Slug(text) ==
    IF text = << >> THEN << >>
    ELSE SlugCharacter(Head(text)) \o Slug(Tail(text))

Suffixed(slug, k) == IF k = 0 THEN slug ELSE slug \o << "-" >> \o Digits(k)

(* A renderer that gives repeated heading texts the same anchor.           *)
UniqueNever(slug, used, k) == slug

(* The anchor of a heading whose text repeats an earlier one: the slug     *)
(* followed by -1, -2, ... (the first that no earlier heading has).        *)
RECURSIVE Unique(_, _, _)
Unique(slug, used, k) ==
    IF Suffixed(slug, k) \notin used THEN Suffixed(slug, k)
    ELSE Unique(slug, used, k + 1)

Range(seq) == {seq[i] : i \in DOMAIN seq}

Anchor(heading, before) == Unique(Slug(heading.text), Range(before), 0)

InitDoc ==
    /\ doc = ""
    /\ anchors = << >>
    /\ followed = << >>

(* The renderer is given one of the documents.                             *)
Render(d) ==
    /\ doc = ""
    /\ doc' = d
    /\ followed' = [i \in DOMAIN Links(d) |-> "not followed"]
    /\ UNCHANGED <<anchors, varsButDoc>>

(* The renderer reaches the next heading of the document and gives it its *)
(* anchor.                                                                 *)
RenderHeading ==
    /\ doc # ""
    /\ Len(anchors) < Len(Headings(doc))
    /\ anchors' = Append(anchors, Anchor(Headings(doc)[Len(anchors) + 1], anchors))
    /\ UNCHANGED <<doc, followed, varsButDoc>>

(* A reader of the rendered document follows a link of its table of        *)
(* contents.                                                               *)
FollowLink(i) ==
    /\ doc # ""
    /\ Len(anchors) = Len(Headings(doc))
    /\ followed[i] = "not followed"
    /\ followed' = [followed EXCEPT ![i] =
                        IF Links(doc)[i] \in Range(anchors)
                        THEN "at a heading" ELSE "nowhere"]
    /\ UNCHANGED <<doc, anchors, varsButDoc>>

NextDoc ==
    \/ \E d \in Documents : Render(d)
    \/ RenderHeading
    \/ \E i \in DOMAIN followed : FollowLink(i)

Init == InitGen /\ InitAsync /\ InitIter /\ InitLib /\ InitDoc

SpecGen == Init /\ [][NextGen]_vars

SpecAsync == Init /\ [][NextAsync]_vars

SpecIter == Init /\ [][NextIter]_vars

SpecLib == Init /\ [][NextLib]_vars

SpecDoc == Init /\ [][NextDoc]_vars

NextScript ==
    \/ Part002
    \/ AsyncAwaitJs
    \/ RunMicrotask
    \/ FireTimer

SpecScript == Init /\ [][NextScript]_vars

----------------------------------------------------------------------------
(* Properties of the generator examples (checked under SpecGen).           *)

Foo == IterResult(Str("foo"), FALSE)
Finished == IterResult(Undef, TRUE)

(* C1: for the generator (code A; yield 'foo'; code B), the first next()   *)
(* runs code A only and returns { value: 'foo', done: false }, leaving the *)
(* generator suspended before B; code B runs during the second next(),     *)
(* which returns { value: undefined, done: true }.                         *)
C1_SingleYieldRunsAThenB ==
    LET g == objs["Syntax"]
        h == hist["Syntax"]
    IN  /\ Len(h) = 0 => g.out = << >>
        /\ Len(h) >= 1 => h[1] = Foo
        /\ Len(h) = 1 => g.out = << Line("A", Undef) >> /\ g.st = "suspendedYield"
        /\ Len(h) >= 2 => /\ h[2] = Finished
                          /\ g.out = << Line("A", Undef), Line("B", Undef) >>
                          /\ g.st = "completed"

C1_Witness ==
    /\ Len(hist["Syntax"]) = 2
    /\ objs["Syntax"].out = << Line("A", Undef), Line("B", Undef) >>

(* C2: for a generator of generatorWithThrow, the first next() returns     *)
(* 'foo', the second propagates Error('Ups!') to its caller, 'bar' is      *)
(* never emitted, and the generator is finished from then on: every later  *)
(* next() returns { value: undefined, done: true }.                        *)
C2_ThrowFinishesGenerator ==
    LET g == objs["generatorWithThrow"]
        h == hist["generatorWithThrow"]
    IN  /\ Len(h) >= 1 => h[1] = Foo
        /\ Len(h) >= 2 => h[2] = Thrown(Error("Ups!")) /\ g.st = "completed"
        /\ \A i \in 3 .. Len(h) : h[i] = Finished
        /\ \A i \in 1 .. Len(h) : h[i].value # Str("bar")

C2_Witness ==
    /\ Len(hist["generatorWithThrow"]) >= 3
    /\ hist["generatorWithThrow"][2].kind = "throw"
    /\ hist["generatorWithThrow"][3] = Finished

(* C3: in the Throw snippet as written, three successive g.next() calls    *)
(* give { value: 'foo', done: false }, then throw Error 'Ups!', then give  *)
(* { value: undefined, done: true }.                                       *)
C3_ThrowSnippetAsDocumented ==
    LET h == hist["Throw"]
    IN  /\ Len(h) >= 1 => h[1] = Foo
        /\ Len(h) >= 2 => h[2] = Thrown(Error("Ups!"))
        /\ Len(h) >= 3 => h[3] = Finished

Yielded(value) == IterResult(value, FALSE)

(* The runs of a data consumer over object o that started on the object as *)
(* it was created, as in for (let e of bar()) and [...bar()].              *)
OnFresh(o) == {k \in DOMAIN outs[o] : outs[o][k].after = 0}

(* C12: bar with yield* foo() between yield 'bar' and yield 'bar again'     *)
(* emits 'bar', then the value of foo ('foo'), then 'bar again', and then  *)
(* is finished; for-of and spread over bar() receive exactly 'bar', 'foo', *)
(* 'bar again'.                                                            *)
C12_YieldStarEmitsValuesOfFoo ==
    LET h == hist["yield* foo()"] IN
    /\ Len(h) >= 1 => h[1] = Yielded(Str("bar"))
    /\ Len(h) >= 2 => h[2] = Yielded(Str("foo"))
    /\ Len(h) >= 3 => h[3] = Yielded(Str("bar again"))
    /\ \A i \in 4 .. Len(h) : h[i] = Finished
    /\ \A k \in OnFresh("yield* foo()") :
          /\ outs["yield* foo()"][k].values = << Str("bar"), Str("foo"), Str("bar again") >>
          /\ ~outs["yield* foo()"][k].threw

C12_Witness ==
    /\ \E k \in OnFresh("yield* foo()") : outs["yield* foo()"][k].by = "spread"
    /\ objs["yield* foo()"].st = "completed"

(* C13: bar calling foo() without yield* creates a generator of foo that   *)
(* is never iterated: bar emits only 'bar' and 'bar again' and then is     *)
(* finished, and the generator of foo stays as it was created, none of its *)
(* body run.                                                               *)
C13_PlainCallIsNeverIterated ==
    LET h == hist["foo()"]
        g == objs["foo()"]
    IN  /\ Len(h) >= 1 => h[1] = Yielded(Str("bar"))
        /\ Len(h) >= 2 => h[2] = Yielded(Str("bar again"))
        /\ \A i \in 3 .. Len(h) : h[i] = Finished
        /\ \A i \in 1 .. Len(h) : h[i].value # Str("foo")
        /\ g.sub \in {<< >>, << NewGenerator("foo") >>}
        /\ Len(h) >= 2 => g.sub = << NewGenerator("foo") >>
        /\ \A k \in OnFresh("foo()") :
              outs["foo()"][k].values = << Str("bar"), Str("bar again") >>

C13_Witness ==
    /\ Len(hist["foo()"]) >= 3
    /\ hist["foo()"][3] = Finished
    /\ objs["foo()"].sub = << NewGenerator("foo") >>

(* The first n of the calls of next() made on object o, with the values    *)
(* passed, and the results those calls returned.                           *)
CallsOf(o, n) == SubSeq(sent[o], 1, n)
ResultsOf(o, n) == SubSeq(hist[o], 1, n)

(* C14: bar written with yield* foo() and bar written with                 *)
(* for (let e of foo()) { yield e } answer every sequence of next() calls  *)
(* with the same sequence of { value, done } results: whenever the two     *)
(* objects have received the same first n calls, they have returned the    *)
(* same first n results.                                                   *)
C14_YieldStarIsForOfYield ==
    \A n \in 1 .. Len(hist["yield* foo()"]) :
        (/\ n <= Len(hist["for (let e of foo())"])
         /\ CallsOf("yield* foo()", n) = CallsOf("for (let e of foo())", n))
        => ResultsOf("yield* foo()", n) = ResultsOf("for (let e of foo())", n)

C14_Witness ==
    /\ Len(hist["yield* foo()"]) >= 4
    /\ sent["yield* foo()"] = sent["for (let e of foo())"]
    /\ sent["yield* foo()"][3] = Str("foo")
    /\ outs["yield* foo()"] = << >>
    /\ outs["for (let e of foo())"] = << >>
    /\ hist["for (let e of foo())"][2] = Yielded(Str("foo"))

(* C15: yield* evaluates to the value the delegated generator returned:    *)
(* with foo = (yield 'foo'; return 'foo done') and bar = (yield 'bar';     *)
(* const result = yield* foo(); yield result), for-of over bar() receives  *)
(* 'bar', 'foo', 'foo done' in that order, and next() calls return those   *)
(* three values and then done.                                             *)
C15_YieldStarEvaluatesToReturnValue ==
    LET o == "const result = yield* foo()"
        h == hist[o]
    IN  /\ Len(h) >= 1 => h[1] = Yielded(Str("bar"))
        /\ Len(h) >= 2 => h[2] = Yielded(Str("foo"))
        /\ Len(h) >= 3 => h[3] = Yielded(Str("foo done"))
        /\ Len(h) >= 3 => objs[o].loc["result"] = Str("foo done")
        /\ \A i \in 4 .. Len(h) : h[i] = Finished
        /\ \A k \in OnFresh(o) :
              outs[o][k].values = << Str("bar"), Str("foo"), Str("foo done") >>

C15_Witness ==
    \E k \in OnFresh("const result = yield* foo()") :
        /\ outs["const result = yield* foo()"][k].by = "for-of"
        /\ outs["const result = yield* foo()"][k].values[3] = Str("foo done")

Done == IterResult(Str("done"), TRUE)

(* C16: successive next() calls on a generatorWithReturn generator return  *)
(* { value: 'foo', done: false }, { value: 'bar', done: false },           *)
(* { value: 'done', done: true } and then { value: undefined, done: true } *)
(* for every later call: the returned value is delivered exactly once,     *)
(* together with done true.                                                *)
C16_ReturnValueDeliveredOnce ==
    LET h == hist["Return"] IN
    /\ Len(h) >= 1 => h[1] = Yielded(Str("foo"))
    /\ Len(h) >= 2 => h[2] = Yielded(Str("bar"))
    /\ Len(h) >= 3 => h[3] = Done
    /\ \A i \in 4 .. Len(h) : h[i] = Finished
    /\ Cardinality({i \in 1 .. Len(h) : h[i].value = Str("done")}) <= 1
    /\ \A i \in 1 .. Len(h) : h[i].value = Str("done") => h[i].done

C16_Witness ==
    /\ Len(hist["Return"]) >= 4
    /\ outs["Return"] = << >>
    /\ hist["Return"][3] = Done
    /\ hist["Return"][4] = Finished

Ready == Line("Ready to consume!", Undef)
Got(v) == Line("Got:", v)

(* C18: creating a generatorDataConsumer generator runs none of its body:  *)
(* nothing is logged before the first next(); the first next() logs        *)
(* 'Ready to consume!' (and only that), returns { value: undefined, done:  *)
(* false } and leaves the generator suspended at the yield, whatever value *)
(* was passed to it: the value is bound to nothing.                        *)
C18_FirstNextRunsToFirstYield ==
    LET g == objs["Data Consumers"]
        h == hist["Data Consumers"]
    IN  /\ Len(h) = 0 => g.out = << >> /\ g.st \in {"absent", "suspendedStart"}
        /\ Len(h) >= 1 =>
              /\ h[1] = Yielded(Undef)
              /\ g.out[1] = Ready
              /\ \A i \in 2 .. Len(g.out) : g.out[i] # Ready
        /\ Len(h) = 1 =>
              /\ g.out = << Ready >>
              /\ g.st = "suspendedYield"
              /\ g.loc = NewGenerator("generatorDataConsumer").loc

C18_Witness ==
    /\ Len(hist["Data Consumers"]) = 1
    /\ sent["Data Consumers"] = << Str("foo") >>
    /\ objs["Data Consumers"].out = << Ready >>

(* C19: after the first next(), every call next(v) on the                  *)
(* generatorDataConsumer generator makes the suspended yield evaluate to v *)
(* and logs 'Got: v' exactly once, in call order, and returns { value:     *)
(* undefined, done: false }; the generator is suspended at the yield again *)
(* and is never done.                                                      *)
C19_EveryLaterNextLogsItsValue ==
    LET g == objs["Data Consumers"]
        h == hist["Data Consumers"]
        v == sent["Data Consumers"]
    IN  /\ \A i \in 1 .. Len(h) : h[i] = Yielded(Undef)
        /\ Len(h) >= 1 =>
              /\ g.out = << Ready >> \o [i \in 1 .. Len(h) - 1 |-> Got(v[i + 1])]
              /\ g.st = "suspendedYield"
        /\ Len(h) >= 2 => g.loc["input"] = v[Len(h)]

C19_Witness ==
    /\ Len(hist["Data Consumers"]) = 4
    /\ sent["Data Consumers"][2] = Str("foo")
    /\ sent["Data Consumers"][3] = Undef
    /\ sent["Data Consumers"][4] = Str("foo")
    /\ objs["Data Consumers"].out = << Ready, Got(Str("foo")), Got(Undef), Got(Str("foo")) >>

(* The even integers v with 0 <= v <= max.                                 *)
EvenUpTo(max) == {v \in 0 .. max : v % 2 = 0}

(* C20: for every max >= 0, evenNumbersUntil(max) emits exactly the even   *)
(* integers v with 0 <= v <= max, each once, in increasing order, and then *)
(* is finished: this is what its next() calls return and what a for-of or  *)
(* spread over evenNumbersUntil(max) receives.                             *)
C20_EvenNumbersUpToMax ==
    LET o == "Implement Iterables"
        g == objs[o]
        h == hist[o]
        max == g.loc["max"].n
        emitted == {i \in 1 .. Len(h) : ~h[i].done}
    IN  (g.st # "absent" /\ max >= 0) =>
          /\ \A i \in 1 .. Len(h) : h[i].kind = "result"
          /\ \A i \in emitted : h[i].value.t = "number" /\ h[i].value.n \in EvenUpTo(max)
          /\ \A i, j \in emitted : i < j => h[i].value.n < h[j].value.n
          /\ \A i \in 1 .. Len(h) : h[i].done =>
                /\ h[i] = Finished
                /\ {h[j].value.n : j \in 1 .. i - 1} = EvenUpTo(max)
                /\ \A j \in i .. Len(h) : h[j].done
          /\ \A k \in OnFresh(o) :
                LET values == outs[o][k].values IN
                /\ {values[i].n : i \in DOMAIN values} = EvenUpTo(max)
                /\ \A i, j \in DOMAIN values : i < j => values[i].n < values[j].n
                /\ \A i \in DOMAIN values : values[i].t = "number"

C20_Witness ==
    /\ objs["Implement Iterables"].loc["max"] = Num(10)
    /\ \E k \in OnFresh("Implement Iterables") :
          /\ outs["Implement Iterables"][k].by = "for-of"
          /\ outs["Implement Iterables"][k].values =
                << Num(0), Num(2), Num(4), Num(6), Num(8), Num(10) >>

----------------------------------------------------------------------------
(* Properties of the examples of async-await.js (checked under SpecAsync). *)

Pending(p) == p \in DOMAIN promises /\ promises[p].state = "pending"
Fulfilled(p) == p \in DOMAIN promises /\ promises[p].state = "fulfilled"
Rejected(p) == p \in DOMAIN promises /\ promises[p].state = "rejected"
Quiet == microtasks = << >>
Idle == microtasks = << >> /\ timers = << >>

ResultText == "Your random number is"
ErrorText == "Ups! Something went wrong! Details:"
NumbersText == "Your random numbers are"
SomeError == Str("some error")

(* The promise the i-th getRandomWithPromise call of the example returns.  *)
RequestPromise(i) ==
    CASE example = "Promises" -> i
      [] OTHER -> i + 1

RequestPromises ==
    IF example \in {"", "Generators"} THEN {}
    ELSE {p \in DOMAIN promises : \E i \in 1 .. calls : p = RequestPromise(i)}

(* The promise the async function of the example returns: it is created   *)
(* when the function is called, right before the promise of the first     *)
(* request the function makes.                                             *)
AsyncPromise == RequestPromise(1) - 1

(* C4: in getRandomWithAsync the function stays suspended at await (its    *)
(* promise pending, nothing returned) while the promise of                 *)
(* getRandomWithPromise is pending; when that promise is resolved the      *)
(* function returns the resolved value, and when it is rejected the catch  *)
(* block receives the rejected value (and returns it).                     *)
C4_AwaitResumesWithOutcome ==
    example = "async / await" =>
        LET p == RequestPromise(1) IN
        /\ Pending(p) => Pending(AsyncPromise) /\ log = << >>
        /\ ~Pending(p) /\ Quiet => ~Pending(AsyncPromise)
        /\ ~Pending(AsyncPromise) =>
              /\ Fulfilled(AsyncPromise)
              /\ promises[AsyncPromise].value = promises[p].value
              /\ Truthy(errs[1]) <=> Rejected(p)
              /\ Rejected(p) => promises[AsyncPromise].value = SomeError
              /\ Fulfilled(p) => promises[AsyncPromise].value.t = "number"

C4_Witness ==
    /\ example = "async / await"
    /\ Rejected(RequestPromise(1))
    /\ Fulfilled(AsyncPromise)
    /\ promises[AsyncPromise].value = SomeError

(* C5: the promise of getRandomWithPromise(error) is pending exactly while *)
(* its timer has not fired; once settled it is rejected with 'some error'  *)
(* when error is truthy and otherwise fulfilled with an integer in 0..99,  *)
(* and a settled promise never changes its state or value again.           *)
HasTimer(p) ==
    \E i \in DOMAIN timers :
        timers[i].cb.k = "getRandomWithPromise.timeout" /\ timers[i].cb.p = p

C5_SettledAsRequested ==
    \A i \in 1 .. calls :
        LET p == RequestPromise(i) IN
        p \in RequestPromises =>
            /\ Pending(p) <=> HasTimer(p)
            /\ Rejected(p) => Truthy(errs[i]) /\ promises[p].value = SomeError
            /\ Fulfilled(p) => /\ ~Truthy(errs[i])
                               /\ promises[p].value.t = "number"
                               /\ promises[p].value.n \in 0 .. 99

C5_SettledForGood ==
    \A p \in DOMAIN promises :
        promises[p].state # "pending" =>
            /\ promises'[p].state = promises[p].state
            /\ promises'[p].value = promises[p].value
            /\ promises'[p].at = promises[p].at

C5_RequestPromiseSettlesOnce ==
    [](C5_SettledAsRequested) /\ [][C5_SettledForGood]_vars

C5_Witness ==
    /\ example = "Concurrently"
    /\ Fulfilled(RequestPromise(1))
    /\ Rejected(RequestPromise(2))
    /\ promises[RequestPromise(1)].at = TimerDelay

(* C6: for getRandomWithPromise(error).then(onResolved).catch(onRejected), *)
(* a result line is logged only for a resolved promise, with its number,   *)
(* an error line only for a rejected promise, with its value, and once     *)
(* the run is over exactly one of the two lines has been logged.           *)
C6_ExactlyOneHandlerRuns ==
    example = "Promises" =>
        LET p == RequestPromise(1) IN
        /\ Len(log) <= 1
        /\ \A i \in DOMAIN log :
              /\ log[i].values = << promises[p].value >>
              /\ \/ log[i].text = ResultText /\ Fulfilled(p)
                 \/ log[i].text = ErrorText /\ Rejected(p)
        /\ Idle => Len(log) = 1

C6_Witness ==
    /\ example = "Promises"
    /\ Idle
    /\ Rejected(RequestPromise(1))
    /\ log = << LogLine(ErrorText, << SomeError >>, TimerDelay) >>

(* C7: getRandomWithGenerator leaves the generator suspended at its first  *)
(* yield until the timer fires; the timer callback resumes it once: with   *)
(* throw('some error') when error is truthy, and the catch block logs      *)
(* 'some error'; otherwise with next(n), the yield evaluates to n and the  *)
(* result line is logged with n.                                           *)
C7_GeneratorResumedByTimer ==
    example = "Generators" =>
        /\ timers # << >> =>
              /\ gen.st = "suspendedYield"
              /\ Body(gen.fn)[gen.pc].op = "yield"
              /\ gen.pc = 1
              /\ log = << >>
        /\ timers = << >> =>
              /\ Len(log) = 1
              /\ Len(gen.out) = 1
              /\ uncaught = << >>
              /\ Truthy(errs[1]) => /\ gen.loc["error"] = SomeError
                            /\ log[1] = LogLine(ErrorText, << SomeError >>, TimerDelay)
              /\ ~Truthy(errs[1]) => /\ gen.loc["result"].t = "number"
                             /\ gen.loc["result"].n \in 0 .. 99
                             /\ log[1] = LogLine(ResultText, << gen.loc["result"] >>, TimerDelay)

C7_Witness ==
    /\ example = "Generators"
    /\ timers = << >>
    /\ Truthy(errs[1])
    /\ log = << LogLine(ErrorText, << SomeError >>, TimerDelay) >>

(* C8: in the sequential form the second promise exists, and its timer is  *)
(* started, only once the first promise is fulfilled; the line is logged   *)
(* after two consecutive timer periods.                                    *)
C8_SecondRequestAfterFirst ==
    example = "Sequentially" =>
        LET a == RequestPromise(1)
            b == RequestPromise(2)
        IN  /\ ~Fulfilled(a) => calls = 1 /\ b \notin DOMAIN promises /\ Len(timers) <= 1
            /\ b \in DOMAIN promises => promises[a].at = TimerDelay
            /\ \A i \in DOMAIN timers :
                  timers[i].cb.p = b => timers[i].due = promises[a].at + TimerDelay
            /\ Len(log) <= 1
            /\ \A i \in DOMAIN log :
                  /\ Fulfilled(a) /\ Fulfilled(b)
                  /\ log[i] = LogLine(NumbersText,
                                      << promises[a].value, promises[b].value >>,
                                      TimerDelay + TimerDelay)

C8_Witness ==
    /\ example = "Sequentially"
    /\ Len(log) = 1
    /\ log[1].at = TimerDelay + TimerDelay

(* C9: in the concurrent form both requests are made, and both timers      *)
(* started, before the function first suspends; the line is logged once    *)
(* both promises are fulfilled, at the time the later of the two settles,  *)
(* which is one timer period and not two.                                  *)
Later(x, y) == IF x >= y THEN x ELSE y

C9_BothRequestsBeforeAwait ==
    example = "Concurrently" =>
        LET a == RequestPromise(1)
            b == RequestPromise(2)
        IN  /\ calls = 2
            /\ Pending(a) => Len(timers) = 2 /\ Pending(b) /\ Pending(AsyncPromise)
            /\ Len(log) <= 1
            /\ \A i \in DOMAIN log :
                  /\ Fulfilled(a) /\ Fulfilled(b)
                  /\ log[i] = LogLine(NumbersText,
                                      << promises[a].value, promises[b].value >>,
                                      Later(promises[a].at, promises[b].at))
                  /\ log[i].at = TimerDelay
            /\ Fulfilled(a) /\ Fulfilled(b) /\ Quiet => Len(log) = 1

C9_Witness ==
    /\ example = "Concurrently"
    /\ Len(log) = 1
    /\ log[1].at = TimerDelay

(* C10: await Promise.all([p1, p2]) is fail-fast: once one of the promises *)
(* is rejected, Promise.all is rejected with that value before any other   *)
(* timer fires, whether or not the other promise has settled, and nothing  *)
(* is logged.                                                              *)
C10_PromiseAllFailsFast ==
    example = "Concurrently (with Promise.all)" =>
        LET p1 == RequestPromise(1)
            p2 == RequestPromise(2)
            pa == RequestPromise(2) + 1
        IN  \A p \in {p1, p2} :
                Rejected(p) /\ Quiet =>
                    /\ Rejected(pa)
                    /\ promises[pa].value = SomeError
                    /\ promises[pa].at <= promises[p].at
                    /\ Rejected(AsyncPromise)
                    /\ log = << >>

C10_Witness ==
    /\ example = "Concurrently (with Promise.all)"
    /\ Rejected(RequestPromise(1))
    /\ Pending(RequestPromise(2))
    /\ Rejected(RequestPromise(2) + 1)

(* C11: await is not restricted to promises: await 3 evaluates to 3 and    *)
(* await of the thenable, whose then(resolve) calls resolve(45), evaluates *)
(* to 45; in both examples that value, and nothing else, is logged.        *)
C11_AwaitOfNonPromise ==
    /\ example = "await 3" =>
          /\ log \in {<< >>, << LogLine("", << Num(3) >>, 0) >>}
          /\ Idle => Len(log) = 1 /\ Fulfilled(AsyncPromise)
    /\ example = "await thenable" =>
          /\ log \in {<< >>, << LogLine("", << Num(45) >>, 0) >>}
          /\ Idle => Len(log) = 1 /\ Fulfilled(AsyncPromise)

C11_Witness ==
    /\ example = "await thenable"
    /\ log = << LogLine("", << Num(45) >>, 0) >>

----------------------------------------------------------------------------
(* Properties of the examples of the iterables document (checked under     *)
(* SpecIter).                                                              *)

FooBarZed == << Str("foo"), Str("bar"), Str("zed") >>

(* C21: successive next() calls on the iterator obtained from an array's   *)
(* Symbol.iterator method return the array's elements in index order, each *)
(* with done false, and once no element remains every further next()       *)
(* returns { value: undefined, done: true }.                               *)
C21_ArrayIteratorInIndexOrder ==
    LET array == its["array iterator"].data
        h == ires["array iterator"]
    IN  \A i \in 1 .. Len(h) :
            /\ h[i].op = "next"
            /\ h[i].res = IF i <= Len(array)
                          THEN ResultObject({"value", "done"}, array[i], FALSE)
                          ELSE ResultObject({"value", "done"}, Undef, TRUE)

C21_Witness ==
    /\ its["array iterator"].data = FooBarZed
    /\ loops["array iterator"] = << >>
    /\ Len(ires["array iterator"]) = 5
    /\ ires["array iterator"][3].res.value = Str("zed")
    /\ ires["array iterator"][5].res.done

(* C22: for the hand-written iterable (data = ['foo','bar']), the first    *)
(* next() returns the first element of the array ('foo') with done false,  *)
(* the second returns the second element ('bar') with done false, the      *)
(* third returns { value: undefined, done: true }, and for-of over the     *)
(* iterable logs 'foo' and then 'bar'.                                     *)
C22_IterableInArrayOrder ==
    LET h == ires["iterable"] IN
    /\ Len(h) >= 1 => h[1].res = ResultObject({"done", "value"}, Str("foo"), FALSE)
    /\ Len(h) >= 2 => h[2].res = ResultObject({"done", "value"}, Str("bar"), FALSE)
    /\ Len(h) >= 3 => h[3].res = ResultObject({"done", "value"}, Undef, TRUE)
    /\ \A k \in DOMAIN loops["iterable"] :
          ~loops["iterable"][k].breaks =>
              loops["iterable"][k].values = << Str("foo"), Str("bar") >>

(* The elements the iterator of a hand-written iterable starts with.       *)
IterableData == IterableIterator("iterable").data

(* C23: in next() of the hand-written iterator done has to be computed     *)
(* before value.  In that order every element is returned with done false, *)
(* done is true only once nothing is left, and a for-of logs every         *)
(* element.  With the element popped first and the rest counted after,     *)
(* done is true on the call that returns the last element, and a for-of    *)
(* loses that element.                                                     *)
C23_DoneBeforeValue ==
    LET n == Len(IterableData)
        h == ires["iterable"]
        v == ires["iterable (value first)"]
    IN  /\ \A i \in 1 .. Len(h) :
              /\ h[i].res.done = (i > n)
              /\ (i <= n) => h[i].res.value \in {IterableData[j] : j \in 1 .. n}
              /\ (i > n) => h[i].res.value = Undef
        /\ \A k \in DOMAIN loops["iterable"] :
              ~loops["iterable"][k].breaks =>
                  /\ Len(loops["iterable"][k].values) = n
                  /\ {loops["iterable"][k].values[j] : j \in 1 .. n}
                        = {IterableData[j] : j \in 1 .. n}
        /\ Len(v) >= n => v[n].res = ResultObject({"value", "done"}, IterableData[1], TRUE)
        /\ \A k \in DOMAIN loops["iterable (value first)"] :
              LET values == loops["iterable (value first)"][k].values IN
              /\ Len(values) < n
              /\ \A j \in DOMAIN values : values[j] # IterableData[1]

C23_Witness ==
    /\ Len(loops["iterable (value first)"]) >= 1
    /\ ~loops["iterable (value first)"][1].breaks
    /\ loops["iterable (value first)"][1].values = << Str("bar") >>
    /\ ires["iterable (value first)"][2].res.value = Str("foo")
    /\ ires["iterable (value first)"][2].res.done

(* What the for-of loops ls have logged, one loop after the other.         *)
RECURSIVE LoggedBy(_)
LoggedBy(ls) == IF ls = << >> THEN << >> ELSE ls[1].values \o LoggedBy(Tail(ls))

(* C24: an array iterator is its own iterable, so a for-of over it can be  *)
(* paused and continued.  When the iterator is consumed by for-of loops    *)
(* only, a first loop that breaks after its first element logs the first   *)
(* element of the array, a loop that does not break logs all the elements  *)
(* that remain, and what the loops log one after the other is the array up *)
(* to there: no element is repeated or skipped.  For ['foo','bar','zed']:  *)
(* 'foo', and then 'bar' and 'zed'.                                        *)
C24_ForOfPausedAndContinued ==
    LET array == its["array iterator"].data
        ls == loops["array iterator"]
        logged == LoggedBy(ls)
    IN  (\A i \in DOMAIN ires["array iterator"] : ires["array iterator"][i].by = "for-of") =>
          /\ Len(logged) <= Len(array)
          /\ logged = SubSeq(array, 1, Len(logged))
          /\ (Len(ls) >= 1 /\ ls[1].breaks /\ array # << >>) => ls[1].values = << array[1] >>
          /\ (\E k \in DOMAIN ls : ~ls[k].breaks) => logged = array
          /\ (array = FooBarZed /\ Len(ls) = 2 /\ ls[1].breaks /\ ~ls[2].breaks) =>
                /\ ls[1].values = << Str("foo") >>
                /\ ls[2].values = << Str("bar"), Str("zed") >>

C24_Witness ==
    /\ its["array iterator"].data = FooBarZed
    /\ Len(loops["array iterator"]) = 2
    /\ loops["array iterator"][1].breaks
    /\ loops["array iterator"][1].values = << Str("foo") >>
    /\ ~loops["array iterator"][2].breaks
    /\ loops["array iterator"][2].values = << Str("bar"), Str("zed") >>

DoneOnly == ResultObject({"done"}, Undef, TRUE)

C26_ForOfReadsMissingDoneAsFalse ==
    LET ls == loops["closable iterable"]
        h == ires["closable iterable"]
    IN  /\ \A i \in 1 .. Len(h) :
              /\ h[i].res.keys \in {{"done"}, {"value"}}
              /\ h[i].res.keys = {"done"} => h[i].res.done
        /\ \A k \in DOMAIN ls :
              (ls[k].after = 0 /\ ~ls[k].breaks) =>
                  /\ ls[k].values = << Str("zed"), Str("bar"), Str("foo") >>
                  /\ its["closable iterable"].data = << >>
                  /\ \A i \in 1 .. 3 : h[i].by = "for-of" /\ h[i].res.keys = {"value"}
                  /\ h[4] = Called("for-of", "next", DoneOnly)

C26_Witness ==
    /\ Len(loops["closable iterable"]) >= 1
    /\ loops["closable iterable"][1].after = 0
    /\ ~loops["closable iterable"][1].breaks
    /\ loops["closable iterable"][1].values = << Str("zed"), Str("bar"), Str("foo") >>

----------------------------------------------------------------------------
(* Properties of string.js and object.js (checked under SpecLib).          *)

Max(a, b) == IF a >= b THEN a ELSE b
FooText == << "f", "o", "o" >>
OneTwoThree == Text(<< "1", "2", "3" >>)

(* What a padding call added to s: the characters before s in the result   *)
(* of padStart, those after s in the result of padEnd.                      *)
Fill(c) ==
    IF c.fn = "padStart" THEN SubSeq(c.result, 1, Len(c.result) - Len(c.s))
    ELSE SubSeq(c.result, Len(c.s) + 1, Len(c.result))

(* The result of call c is fill + s (padStart) or s + fill (padEnd).       *)
KeepsString(c) ==
    /\ Len(c.result) >= Len(c.s)
    /\ c.result = IF c.fn = "padStart" THEN Fill(c) \o c.s ELSE c.s \o Fill(c)

(* fill is p repeated and cut to the length of fill.                       *)
RepeatsPad(fill, p) == \A i \in 1 .. Len(fill) : fill[i] = p[((i - 1) % Len(p)) + 1]

(* The results the comments of string.js give for 'foo' padded with '123'. *)
PadExamples(c) ==
    (c.s = FooText /\ c.fillString = OneTwoThree) =>
        /\ c.maxLength = 10 =>
              c.result = IF c.fn = "padStart"
                         THEN << "1", "2", "3", "1", "2", "3", "1", "f", "o", "o" >>
                         ELSE << "f", "o", "o", "1", "2", "3", "1", "2", "3", "1" >>
        /\ c.maxLength = 5 =>
              c.result = IF c.fn = "padStart" THEN << "1", "2", "f", "o", "o" >>
                         ELSE << "f", "o", "o", "1", "2" >>
        /\ c.maxLength \in {0, 3} => c.result = FooText

PadOf(fillString) ==
    CASE fillString = Undef -> << " " >>
      [] fillString = Null -> << "n", "u", "l", "l" >>
      [] fillString = Num(0) -> << "0" >>

(* C28: the pad argument of padStart / padEnd is defaulted or coerced to a *)
(* string: left out or undefined it fills with spaces, null fills with the *)
(* characters of 'null' ('nullnulfoo', 'foonullnul' for 'foo' and length   *)
(* 10) and the number 0 fills with '0' ('0000000foo', 'foo0000000').       *)
C28_PadDefaultedOrCoerced ==
    (pad.fn # "" /\ pad.fillString \in {Undef, Null, Num(0)}) =>
        /\ Len(pad.result) = Max(Len(pad.s), pad.maxLength)
        /\ KeepsString(pad)
        /\ RepeatsPad(Fill(pad), PadOf(pad.fillString))
        /\ (pad.s = FooText /\ pad.maxLength = 10) =>
              /\ pad.fillString = Undef => \A i \in 1 .. 7 : Fill(pad)[i] = " "
              /\ (pad.fillString = Null /\ pad.fn = "padStart") =>
                    pad.result = << "n", "u", "l", "l", "n", "u", "l", "f", "o", "o" >>
              /\ (pad.fillString = Null /\ pad.fn = "padEnd") =>
                    pad.result = << "f", "o", "o", "n", "u", "l", "l", "n", "u", "l" >>
              /\ (pad.fillString = Num(0) /\ pad.fn = "padStart") =>
                    pad.result = << "0", "0", "0", "0", "0", "0", "0", "f", "o", "o" >>
              /\ (pad.fillString = Num(0) /\ pad.fn = "padEnd") =>
                    pad.result = << "f", "o", "o", "0", "0", "0", "0", "0", "0", "0" >>

C28_Witness ==
    /\ pad.fn = "padEnd"
    /\ pad.s = FooText
    /\ pad.maxLength = 10
    /\ pad.fillString = Null
    /\ pad.result = << "f", "o", "o", "n", "u", "l", "l", "n", "u", "l" >>

(* C29: Object.values(obj) returns all the values of obj in the order in   *)
(* which a for...in loop visits its properties, and Object.entries(obj)    *)
(* returns one [key, value] pair per property in that same order, so that  *)
(* Object.entries(obj)[i][1] is Object.values(obj)[i] for every i.  For    *)
(* the obj of object.js: [ 'Mr.Foo', 'Mr.Bar' ] and                        *)
(* [ [ 'foo', 'Mr.Foo' ], [ 'bar', 'Mr.Bar' ] ].                           *)
C29_ValuesAndEntriesInForInOrder ==
    LET n == Len(obj) IN
    /\ seen.forIn # << >> =>
          /\ Len(seen.forIn[1]) = n
          /\ {seen.forIn[1][i] : i \in 1 .. n} = {obj[i].key : i \in 1 .. n}
    /\ seen.values # << >> => Len(seen.values[1]) = n
    /\ seen.entries # << >> => Len(seen.entries[1]) = n
    /\ (seen.values # << >> /\ seen.forIn # << >>) =>
          \A i \in 1 .. n : seen.values[1][i] = Get(obj, seen.forIn[1][i])
    /\ (seen.entries # << >> /\ seen.forIn # << >>) =>
          \A i \in 1 .. n :
              seen.entries[1][i] = << seen.forIn[1][i], Get(obj, seen.forIn[1][i]) >>
    /\ (seen.entries # << >> /\ seen.values # << >>) =>
          \A i \in 1 .. n : seen.entries[1][i][2] = seen.values[1][i]
    /\ obj = objLiteral =>
          /\ seen.values \in {<< >>, << << Str("Mr.Foo"), Str("Mr.Bar") >> >>}
          /\ seen.entries \in {<< >>, << << << Str("foo"), Str("Mr.Foo") >>,
                                            << Str("bar"), Str("Mr.Bar") >> >> >>}

C29_Witness ==
    /\ obj = objLiteral
    /\ seen.forIn = << << Str("foo"), Str("bar") >> >>
    /\ seen.values = << << Str("Mr.Foo"), Str("Mr.Bar") >> >>
    /\ seen.entries # << >>

----------------------------------------------------------------------------
(* Properties of the documents' tables of contents (SpecDoc).              *)

AsyncAwait1 == << "a", "s", "y", "n", "c", "-", "-", "a", "w", "a", "i", "t", "-", "1" >>
Yield1 == << "y", "i", "e", "l", "d", "-", "1" >>

(* The document has been rendered to its last heading.                     *)
Rendered == doc # "" /\ Len(anchors) = Len(Headings(doc))

(* The headings rendered so far whose anchor is a.                         *)
HeadingsAt(a) == {i \in DOMAIN anchors : anchors[i] = a}

(* C30: every link of the table of contents of README.md, of the          *)
(* generators document and of the iterables document leads to a heading   *)
(* of the same document, the anchor of a heading being its text in lower   *)
(* case, without punctuation, with hyphens for spaces and with -1, -2, ... *)
(* after a repeated text; #async--await-1 is the second "async / await"    *)
(* heading of README.md and #yield-1 the first "yield*" heading of the     *)
(* generators document.                                                    *)
C30_TableOfContentsLinksResolve ==
    /\ \A i \in DOMAIN followed : followed[i] # "nowhere"
    /\ Rendered =>
        /\ \A i \in DOMAIN Links(doc) : Cardinality(HeadingsAt(Links(doc)[i])) = 1
        /\ doc = "README.md" =>
            /\ AsyncAwait1 \in Range(Links(doc))
            /\ HeadingsAt(AsyncAwait1) = {11}
        /\ doc = "unnamed/part_001" =>
            /\ Yield1 \in Range(Links(doc))
            /\ HeadingsAt(Yield1) = {5}

(* All links of the README's table of contents were followed, the one to  *)
(* #async--await-1 among them.                                             *)
C30_Witness ==
    /\ doc = "README.md"
    /\ Rendered
    /\ \A i \in DOMAIN followed : followed[i] = "at a heading"
    /\ \E i \in DOMAIN followed : Links(doc)[i] = AsyncAwait1

----------------------------------------------------------------------------
(* Further properties of the examples of async-await.js (SpecAsync).       *)

(* C31: the promise getRandomWithAsync returns is never rejected: when the *)
(* awaited promise is resolved it is fulfilled with the number, when the   *)
(* awaited promise is rejected it is fulfilled with the caught value; so   *)
(* the handler given to .catch never runs (no error line is ever logged)   *)
(* and a failed request is logged by the handler given to .then.           *)
C31_AsyncPromiseNeverRejected ==
    example = "async / await" =>
        LET p == RequestPromise(1) IN
        /\ ~Rejected(AsyncPromise)
        /\ \A q \in DOMAIN promises : Rejected(q) => q = p
        /\ \A i \in DOMAIN log : log[i].text = ResultText
        /\ Idle =>
              /\ Fulfilled(AsyncPromise)
              /\ promises[AsyncPromise].value = promises[p].value
              /\ log = << LogLine(ResultText, << promises[p].value >>, TimerDelay) >>
              /\ Rejected(p) <=> log[1].values = << SomeError >>

C31_Witness ==
    /\ example = "async / await"
    /\ Idle
    /\ Rejected(RequestPromise(1))
    /\ log = << LogLine(ResultText, << SomeError >>, TimerDelay) >>

----------------------------------------------------------------------------
(* Properties of the script src/unnamed/part_002 (SpecScript).             *)

NotAFunction == TypeError("generator is not a function")

(* The promise random() returned: the last promise but one the script      *)
(* creates (the last one is the promise of random().then(...)).            *)
RandomPromise == Len(promises) - 1

(* The continuations of await in random, registered on a promise or        *)
(* queued as a job.                                                        *)
Awaiting ==
    {p \in DOMAIN promises :
        \E i \in DOMAIN promises[p].reactions :
            promises[p].reactions[i].onFulfilled.k = "getRandomWithAsync.return"}

AwaitJobs ==
    {i \in DOMAIN microtasks :
        microtasks[i].reaction.onFulfilled.k = "getRandomWithAsync.return"}

(* C32: when random() is called the name getRandom is bound to the         *)
(* generator version, so getRandom() in random throws at once (generator   *)
(* is undefined): no third request is made, random awaits no promise, its  *)
(* promise is fulfilled with the caught TypeError, and the value           *)
(* random().then logs is that error, never a number.                      *)
C32_RandomGetsTheGeneratorVersion ==
    example = "unnamed/part_002" =>
        /\ getRandom = Function("(generator, error) => { ... }")
        /\ calls = 2
        /\ Len(promises) = 5
        /\ Awaiting = {} /\ AwaitJobs = {}
        /\ uncaught = << >>
        /\ Fulfilled(RandomPromise)
        /\ promises[RandomPromise].value = NotAFunction
        /\ promises[RandomPromise].at = 0
        /\ \A i \in DOMAIN log : log[i].text = "" => log[i] = LogLine("", << NotAFunction >>, 0)
        /\ (microtasks = << >>) => \E i \in DOMAIN log : log[i].text = ""

C32_Witness ==
    /\ example = "unnamed/part_002"
    /\ Idle
    /\ Len(log) = 3
    /\ log[1] = LogLine("", << NotAFunction >>, 0)
    /\ log[2].text = ResultText
    /\ log[3].text = ResultText

(* The lines console.log(random) wrote, and the lines of the examples that *)
(* wait for a timer.                                                       *)
ValueLines == {i \in DOMAIN log : log[i].text = ""}
TimerLines == {i \in DOMAIN log : log[i].text # ""}

C34_LoggedBeforeEveryTimerLine ==
    example = "async-await.js" =>
        /\ \A i \in ValueLines :
              /\ log[i].at = 0
              /\ log[i].values \in {<< Num(3) >>, << Num(45) >>}
              /\ \A j \in TimerLines : i < j
        /\ \A j \in TimerLines : log[j].at >= TimerDelay
        /\ microtasks = << >> =>
              /\ Cardinality(ValueLines) = 2
              /\ \E i \in ValueLines : log[i].values = << Num(3) >>
              /\ \E i \in ValueLines : log[i].values = << Num(45) >>

C34_NothingLoggedByTheScriptBody ==
    example = "" /\ example' = "async-await.js" =>
        /\ log' = << >>
        /\ now' = 0
        /\ microtasks' # << >>

(* C34: the code after an await runs in a later turn than the await, also *)
(* for await 3 and for await of the thenable, whose then calls resolve at  *)
(* once: when the body of the script async-await.js has run to its end     *)
(* nothing has been logged yet; 3 and 45 are logged afterwards, at time 0, *)
(* before every line of an example that waits for its 200 ms timer.        *)
C34_AwaitContinuesInALaterTurn ==
    [](C34_LoggedBeforeEveryTimerLine) /\ [][C34_NothingLoggedByTheScriptBody]_vars

C34_Witness ==
    /\ example = "async-await.js"
    /\ Idle
    /\ Len(log) = 4
    /\ log[1] = LogLine("", << Num(3) >>, 0)
    /\ log[2] = LogLine("", << Num(45) >>, 0)
    /\ log[3].text = ResultText /\ log[3].at = TimerDelay
    /\ log[4].text = NumbersText /\ log[4].at = 2 * TimerDelay

----------------------------------------------------------------------------
(* Further properties of the generator examples (SpecGen).                 *)

(* The consumers of object o that started after o had reported done.       *)
AfterDone(o) ==
    {k \in DOMAIN outs[o] : \E i \in 1 .. outs[o][k].after : hist[o][i].done}

----------------------------------------------------------------------------
(* Further properties of the examples of the iterables document (SpecIter). *)

BarFoo == << Str("bar"), Str("foo") >>

(* The calls the object of snippet o answered with an element.             *)
Delivered(o) == {i \in DOMAIN ires[o] : ~IteratorComplete(ires[o][i].res)}

(* C36: the iterator built as an iterable (data, next, [Symbol.iterator]() *)
(* returning this) can be used once: [Symbol.iterator]() returns the       *)
(* object itself, every element delivered is removed from data, a for-of   *)
(* that runs to its end leaves data empty, and every for-of after it       *)
(* visits nothing.  The iterable of the first Example makes a new data     *)
(* array for each [Symbol.iterator]() call: every for-of over it visits    *)
(* the same elements again.                                                *)
C36_IteratorAsIterableIsSingleUse ==
    LET o == "iterator as an iterable"
        ls == loops[o]
    IN  /\ its[o].kind # "absent" =>
              /\ SymbolIterator(its[o]) = its[o]
              /\ Cardinality(Delivered(o)) + Len(its[o].data) = Len(IterableData)
              /\ \A i \in Delivered(o) :
                    i <= Len(BarFoo) /\ IteratorValue(ires[o][i].res) = BarFoo[i]
              /\ Len(LoggedBy(ls)) <= Cardinality(Delivered(o))
        /\ \A k \in DOMAIN ls :
              /\ ~ls[k].breaks => its[o].data = << >>
              /\ (\E j \in 1 .. k - 1 : ~ls[j].breaks) => ls[k].values = << >>
        /\ \A k \in DOMAIN loops["iterable"] :
              loops["iterable"][k].values =
                  IF loops["iterable"][k].breaks THEN << Str("bar") >> ELSE BarFoo

C36_Witness ==
    /\ Len(loops["iterator as an iterable"]) = 2
    /\ ires["iterator as an iterable"] # << >>
    /\ \A i \in DOMAIN ires["iterator as an iterable"] :
          ires["iterator as an iterable"][i].by = "for-of"
    /\ loops["iterator as an iterable"][1].values = BarFoo
    /\ ~loops["iterator as an iterable"][2].breaks
    /\ loops["iterator as an iterable"][2].values = << >>

----------------------------------------------------------------------------
(* Further properties of evenNumbersUntil (SpecGen).                       *)

(* floor(max / 2) + 1 for max >= 0, and 0 for max < 0.                     *)
EvenCount(max) == IF max >= 0 THEN (max \div 2) + 1 ELSE 0

(* C37: in evenNumbersUntil value is even whenever the if is reached, so   *)
(* every iteration of the loop yields: value is 2 * k after k iterations,  *)
(* the loop is left with value = 2 * (floor(max / 2) + 1) (0 for max < 0), *)
(* the number of values emitted is floor(max / 2) + 1 for max >= 0 and 0   *)
(* for max < 0, and for an odd max the last value emitted is max - 1.      *)
C37_NoIterationSkipped ==
    LET o == "Implement Iterables"
        g == objs[o]
        h == hist[o]
        max == g.loc["max"].n
        emitted == {i \in 1 .. Len(h) : ~h[i].done}
    IN  g.st # "absent" =>
          /\ g.st = "suspendedYield" =>
                /\ g.loc["value"].n % 2 = 0
                /\ g.loc["value"].n = 2 * (Cardinality(emitted) - 1)
                /\ h[Len(h)].value = g.loc["value"]
          /\ g.st = "completed" =>
                /\ g.loc["value"].n = 2 * EvenCount(max)
                /\ Cardinality(emitted) = EvenCount(max)
                /\ (max > 0 /\ max % 2 = 1) =>
                      \E i \in emitted : /\ h[i].value.n = max - 1
                                         /\ \A j \in emitted : j <= i
          /\ \A k \in OnFresh(o) :
                /\ Len(outs[o][k].values) = EvenCount(max)
                /\ (max > 0 /\ max % 2 = 1) =>
                      outs[o][k].values[EvenCount(max)] = Num(max - 1)

C37_Witness ==
    /\ objs["Implement Iterables"].loc["max"] = Num(7)
    /\ objs["Implement Iterables"].st = "completed"
    /\ objs["Implement Iterables"].loc["value"] = Num(8)
    /\ \E k \in OnFresh("Implement Iterables") :
          outs["Implement Iterables"][k].values = << Num(0), Num(2), Num(4), Num(6) >>

----------------------------------------------------------------------------
(* Further properties of getRandomWithGenerator (SpecAsync).               *)

(* C38: getRandomWithGenerator leaves the generator finished.  Until the   *)
(* timer fires the generator is suspended at its yield; the timer callback *)
(* resumes it once, by next(n) or by throw('some error'), and from then on *)
(* the generator is completed, exactly one line has been logged (the       *)
(* result line after next, the error line after throw), and no exception   *)
(* has escaped the callback.                                               *)
C38_GeneratorLeftFinished ==
    example = "Generators" =>
        /\ gen.fn = "onFulfill"
        /\ uncaught = << >>
        /\ microtasks = << >> /\ promises = << >>
        /\ timers # << >> <=> gen.st = "suspendedYield"
        /\ timers = << >> <=> gen.st = "completed"
        /\ gen.st = "suspendedYield" => log = << >> /\ now = 0 /\ Len(timers) = 1
        /\ gen.st = "completed" =>
              /\ gen.pc > 1
              /\ now = TimerDelay
              /\ Len(log) = 1
              /\ log[1].text = (IF Truthy(errs[1]) THEN ErrorText ELSE ResultText)
              /\ log[1].at = TimerDelay
              /\ GenNext(gen, Undef).res = Finished
              /\ GenNext(gen, Undef).g = gen

C38_Witness ==
    /\ example = "Generators"
    /\ gen.st = "completed"
    /\ ~Truthy(errs[1])
    /\ log[1].text = ResultText
    /\ uncaught = << >>

====
